---- MODULE Spec2Model ----
(***************************************************************************)
(* cctop: a terminal monitor for agent session logs.                       *)
(*                                                                         *)
(* The model covers the log aggregation and status-inference pipeline      *)
(* (parsers/jsonl_parser.py, parsers/aggregator.py), the application's     *)
(* refresh scheduling (app.py) and the change notifier's thread            *)
(* (watchers/file_watcher.py).                                             *)
(*                                                                         *)
(* Time is counted in milliseconds.  A datetime is a record                *)
(* [aware, val]: for an offset-carrying datetime val is the UTC instant,   *)
(* for a naive datetime val is the wall-clock reading it spells.           *)
(* A call that raises is modelled by a result record whose field raised    *)
(* is TRUE.                                                                *)
(***************************************************************************)
EXTENDS Integers, Sequences, FiniteSets, TLC

VARIABLES
    now,                \* the wall clock (UTC instant, ms)
    projects_exists,    \* does {claude_home}/projects exist
    files,              \* log path -> [exists, lines]
    todos,              \* todo file name -> content
    creds,              \* content of {claude_home}/.credentials.json
    agents,             \* DataAggregator.agents, in dict (insertion) order
    sessions,           \* DataAggregator.sessions (its keys)
    metrics,            \* the SystemMetrics refresh_data is working on
    published,          \* what the widgets were last handed
    sort_by,            \* CCTopApp.sort_by
    filter_status,      \* CCTopApp.filter_status
    disable_watcher,    \* CCTopApp._disable_watcher
    last_refresh_time,  \* CCTopApp.last_refresh_time
    app_pc,             \* position of the application thread
    app_queue,          \* callbacks waiting on the application's event loop
    cur,                \* the callback the application thread is running
    watcher_pc,         \* position of the notifier (observer) thread
    fs_events,          \* file-system events waiting in the observer
    scanners,           \* threads currently inside refresh_data
    hist,               \* history: counters and marks used by the properties
    input,              \* the argument of a library call made on its own
    output,             \* that call's name and what it returned or did
    PRICING,            \* utils/pricing.py: PRICING, model key -> rates
    PRICING_INITIALIZED, \* utils/pricing.py: _PRICING_INITIALIZED
    PRICING_SOURCE,     \* utils/pricing.py: _PRICING_SOURCE
    cache_file,         \* the pricing cache file (~/.cache/cctop/pricing.json)
    temp_file,          \* the file at the cache path with suffix .tmp
    savers,             \* process -> where it stands in save_to_cache
    tail_file,          \* a file a LogTailer follows: [exists, ino, content]
    tailer              \* LogTailer.file_positions' entry for that file

vars == <<now, projects_exists, files, todos, creds, agents, sessions, metrics,
          published, sort_by, filter_status, disable_watcher, last_refresh_time,
          app_pc, app_queue, cur, watcher_pc, fs_events, scanners, hist,
          input, output, PRICING, PRICING_INITIALIZED, PRICING_SOURCE, cache_file,
          temp_file, savers, tail_file, tailer>>

(* What the application's own steps leave alone: the application never     *)
(* calls initialize_pricing, and a library call made on its own is not a   *)
(* step of the application.                                                *)
side_vars == <<temp_file, savers, tail_file, tailer>>

lib_vars == <<input, output, PRICING, PRICING_INITIALIZED, PRICING_SOURCE, cache_file,
              side_vars>>

(* What a library call made on its own leaves alone.                       *)
app_vars == <<projects_exists, files, todos, creds, agents, sessions, metrics,
              published, sort_by, filter_status, disable_watcher, last_refresh_time,
              app_pc, app_queue, cur, watcher_pc, fs_events, scanners, hist>>

----------------------------------------------------------------------------
(* Program constants, in milliseconds.                                     *)

ActiveWindow == 30000

IdleWindow == 3600000

TodoWindow == 300000

DebounceWindow == 100

(* The local zone's offset from UTC (tz.tzlocal()), in milliseconds.       *)
TzOffset == 3600000

----------------------------------------------------------------------------
(* Datetimes.                                                              *)

NaiveDt(v) == [aware |-> FALSE, val |-> v]

AwareDt(v) == [aware |-> TRUE, val |-> v]

(* datetime.now(): the naive local wall-clock reading.                     *)
datetime_now(t) == NaiveDt(t + TzOffset)

(* now.replace(tzinfo=tz.tzlocal()): the same reading, made aware.         *)
replace_tzlocal(d) == AwareDt(d.val - TzOffset)

(* a - b on datetimes raises TypeError when exactly one is aware.          *)
DtComparable(a, b) == a.aware = b.aware

DtDiff(a, b) == a.val - b.val

----------------------------------------------------------------------------
(* Log lines.  A line is modelled by what json.loads makes of it.          *)

TsMissing == [k |-> "missing", val |-> 0]

TsBad == [k |-> "bad", val |-> 0]

TsNaive(v) == [k |-> "naive", val |-> v]

TsAware(v) == [k |-> "aware", val |-> v]

UsageAbsent == [k |-> "absent", input_tokens |-> 0, output_tokens |-> 0,
                cache_creation_input_tokens |-> 0, cache_read_input_tokens |-> 0]

UsageNull == [UsageAbsent EXCEPT !.k = "null"]

Usage(i, o, cc, cr) == [k |-> "object", input_tokens |-> i, output_tokens |-> o,
                        cache_creation_input_tokens |-> cc,
                        cache_read_input_tokens |-> cr]

MsgAbsent == [k |-> "absent", stop_reason |-> "", model |-> "", usage |-> UsageAbsent]

MsgNull == [MsgAbsent EXCEPT !.k = "null"]

Msg(stop, model, usage) == [k |-> "object", stop_reason |-> stop, model |-> model,
                            usage |-> usage]

BlankLine == [kind |-> "blank", type |-> "", timestamp |-> TsMissing, agentId |-> "",
              slug |-> "", sessionId |-> "", cwd |-> "", message |-> MsgAbsent]

GarbageLine == [BlankLine EXCEPT !.kind = "garbage"]

NonObjectLine == [BlankLine EXCEPT !.kind = "nonobject"]

(* A line holding bytes that are not UTF-8.                                *)
BadBytesLine == [BlankLine EXCEPT !.kind = "badbytes"]

Obj(type, ts, aid, sid, msg) ==
    [kind |-> "object", type |-> type, timestamp |-> ts, agentId |-> aid,
     slug |-> "", sessionId |-> sid, cwd |-> "", message |-> msg]

(* date_parser.isoparse on a timestamp string that is present.             *)
isoparse(ts) ==
    IF ts.k = "bad" THEN [raised |-> TRUE, dt |-> NaiveDt(0)]
    ELSE [raised |-> FALSE, dt |-> [aware |-> ts.k = "aware", val |-> ts.val]]

----------------------------------------------------------------------------
(* JSONLParser                                                             *)

RECURSIVE DecodedLines(_)
DecodedLines(lines) ==
    IF lines = <<>> THEN <<>>
    ELSE IF Head(lines).kind \in {"blank", "garbage"} THEN DecodedLines(Tail(lines))
    ELSE <<Head(lines)>> \o DecodedLines(Tail(lines))

(* The result is [raised, entries].  open() failing is an OSError, caught; *)
(* a line that is not UTF-8 makes the text file's iterator raise           *)
(* UnicodeDecodeError, a ValueError, which neither handler names.          *)
parse_log_file(file) ==
    IF ~file.exists THEN [raised |-> FALSE, entries |-> <<>>]
    ELSE IF ~file.readable THEN [raised |-> FALSE, entries |-> <<>>]
    ELSE IF \E i \in DOMAIN file.lines : file.lines[i].kind = "badbytes"
    THEN [raised |-> TRUE, entries |-> <<>>]
    ELSE [raised |-> FALSE, entries |-> DecodedLines(file.lines)]

NoUsage == [raised |-> FALSE, some |-> FALSE, input_tokens |-> 0, output_tokens |-> 0,
            cache_creation_tokens |-> 0, cache_read_tokens |-> 0,
            timestamp |-> NaiveDt(0), model |-> ""]

UsageRaised == [NoUsage EXCEPT !.raised = TRUE]

extract_usage_data(log_entry, t) ==
    IF log_entry.kind # "object" THEN UsageRaised          \* AttributeError, not caught
    ELSE IF log_entry.message.k = "null" THEN UsageRaised  \* None.get: AttributeError
    ELSE IF log_entry.message.k = "absent" THEN NoUsage
    ELSE IF log_entry.message.usage.k # "object" THEN NoUsage
    ELSE IF log_entry.timestamp.k = "bad" THEN NoUsage     \* ValueError, caught
    ELSE [raised |-> FALSE, some |-> TRUE,
          input_tokens |-> log_entry.message.usage.input_tokens,
          output_tokens |-> log_entry.message.usage.output_tokens,
          cache_creation_tokens |-> log_entry.message.usage.cache_creation_input_tokens,
          cache_read_tokens |-> log_entry.message.usage.cache_read_input_tokens,
          timestamp |-> IF log_entry.timestamp.k = "missing" THEN datetime_now(t)
                        ELSE isoparse(log_entry.timestamp).dt,
          model |-> log_entry.message.model]

total_tokens(u) ==
    u.input_tokens + u.output_tokens + u.cache_creation_tokens + u.cache_read_tokens

InfoZero == [raised |-> FALSE, agent_id |-> "", slug |-> "", session_id |-> "",
             project_path |-> "", created_at |-> NaiveDt(0), last_activity |-> NaiveDt(0),
             total_input_tokens |-> 0, total_output_tokens |-> 0,
             total_cache_creation_tokens |-> 0, total_cache_read_tokens |-> 0,
             message_count |-> 0, model |-> ""]

(* The loop of get_agent_info_from_log over the entries, folded left to    *)
(* right into the accumulator acc.                                         *)
(* One pass of the loop body: usage_data is what extract_usage_data gave   *)
(* for the entry.                                                          *)
AccumulateEntry(entry, usage_data, acc) ==
    IF usage_data.raised THEN [acc EXCEPT !.raised = TRUE]
    ELSE [acc EXCEPT
            !.total_input_tokens =
                IF usage_data.some THEN @ + usage_data.input_tokens ELSE @,
            !.total_output_tokens =
                IF usage_data.some THEN @ + usage_data.output_tokens ELSE @,
            !.total_cache_creation_tokens =
                IF usage_data.some THEN @ + usage_data.cache_creation_tokens ELSE @,
            !.total_cache_read_tokens =
                IF usage_data.some THEN @ + usage_data.cache_read_tokens ELSE @,
            !.model = IF usage_data.some /\ usage_data.model # "" THEN usage_data.model
                      ELSE @,
            !.message_count = IF entry.type \in {"user", "assistant"} THEN @ + 1 ELSE @]

RECURSIVE AccumulateEntries(_, _, _)
AccumulateEntries(entries, acc, t) ==
    IF entries = <<>> \/ acc.raised THEN acc
    ELSE AccumulateEntries(Tail(entries),
             AccumulateEntry(Head(entries), extract_usage_data(Head(entries), t), acc), t)

(* Called with a non-empty sequence only (the caller returns early on an   *)
(* empty one).                                                             *)
(* get_agent_info_from_log taking the identity from the first record that  *)
(* carries an agentId instead of from the first record.                    *)
get_agent_info_from_log_any_id(entries, t) ==
    LET first_entry == entries[1]
        ided == SelectSeq(entries, LAMBDA e : e.kind = "object" /\ e.agentId # "")
        id_entry == IF ided = <<>> THEN entries[1] ELSE ided[1]
        last_entry == entries[Len(entries)]
    IN IF first_entry.kind # "object" \/ last_entry.kind # "object"
       THEN [InfoZero EXCEPT !.raised = TRUE]                \* AttributeError
       ELSE IF first_entry.timestamp.k = "bad" \/ last_entry.timestamp.k = "bad"
       THEN [InfoZero EXCEPT !.raised = TRUE]                \* ValueError from isoparse
       ELSE LET created_at == IF first_entry.timestamp.k = "missing"
                              THEN datetime_now(t)
                              ELSE isoparse(first_entry.timestamp).dt
                last_activity == IF last_entry.timestamp.k = "missing"
                                 THEN created_at
                                 ELSE isoparse(last_entry.timestamp).dt
            IN AccumulateEntries(entries,
                   [InfoZero EXCEPT !.agent_id = id_entry.agentId,
                                    !.slug = id_entry.slug,
                                    !.session_id = id_entry.sessionId,
                                    !.project_path = first_entry.cwd,
                                    !.created_at = created_at,
                                    !.last_activity = last_activity], t)

get_agent_info_from_log(entries, t) ==
    LET first_entry == entries[1]
        last_entry == entries[Len(entries)]
    IN IF first_entry.kind # "object" \/ last_entry.kind # "object"
       THEN [InfoZero EXCEPT !.raised = TRUE]                \* AttributeError
       ELSE IF first_entry.timestamp.k = "bad" \/ last_entry.timestamp.k = "bad"
       THEN [InfoZero EXCEPT !.raised = TRUE]                \* ValueError from isoparse
       ELSE LET created_at == IF first_entry.timestamp.k = "missing"
                              THEN datetime_now(t)
                              ELSE isoparse(first_entry.timestamp).dt
                last_activity == IF last_entry.timestamp.k = "missing"
                                 THEN created_at
                                 ELSE isoparse(last_entry.timestamp).dt
            IN AccumulateEntries(entries,
                   [InfoZero EXCEPT !.agent_id = first_entry.agentId,
                                    !.slug = first_entry.slug,
                                    !.session_id = first_entry.sessionId,
                                    !.project_path = first_entry.cwd,
                                    !.created_at = created_at,
                                    !.last_activity = last_activity], t)

is_waiting_for_user(entries) ==
    IF entries = <<>> THEN [raised |-> FALSE, val |-> FALSE]
    ELSE LET last_entry == entries[Len(entries)]
         IN IF last_entry.kind # "object" THEN [raised |-> TRUE, val |-> FALSE]
            ELSE IF last_entry.type = "assistant"
            THEN IF last_entry.message.k = "null" THEN [raised |-> TRUE, val |-> FALSE]
                 ELSE [raised |-> FALSE,
                       val |-> last_entry.message.k = "object"
                               /\ last_entry.message.stop_reason = "end_turn"]
            ELSE [raised |-> FALSE, val |-> FALSE]

----------------------------------------------------------------------------
(* The file system the aggregator reads.                                   *)

AgentIds == {"a1", "a2"}

SessionIds == {"s1", "s2"}

(* A log path is <<project directory, file name>>; every name here matches *)
(* agent-*.jsonl.                                                          *)
LogPaths == {<<"projA", "agent-a1.jsonl">>, <<"projB", "agent-a2.jsonl">>}

NoFile == [exists |-> FALSE, readable |-> TRUE, lines |-> <<>>]

(* todos/{session_id}.json is <<session_id, "">>,                          *)
(* todos/{session_id}-agent-{agent_id}.json is <<session_id, agent_id>>.   *)
TodoNames == SessionIds \X (AgentIds \cup {""})

(* "unreadable": read_text raises OSError; "badbytes": the bytes are not   *)
(* valid UTF-8 and read_text raises UnicodeDecodeError.                     *)
TodoContents == {"absent", "garbage", "empty_list", "nonempty_list", "nonlist",
                 "unreadable", "badbytes"}

CredsContents == {"absent", "garbage", "nonobject", "null_oauth", "no_subscription",
                  "pro", "max"}

(* iterdir() and glob() give no order: a scan visits the paths in any.     *)
ScanOrders == {o \in [1..Cardinality(LogPaths) -> LogPaths] :
                 \A i, j \in DOMAIN o : i # j => o[i] # o[j]}

----------------------------------------------------------------------------
(* DataAggregator: status classification.                                  *)

(* The pass with the age test turned round: an old record counts, a       *)
(* recent one does not.                                                    *)
todo_pattern_step_old_counts(td, name, entries, t) ==
    IF name \notin DOMAIN td \/ td[name] = "absent" THEN "next"
    ELSE IF td[name] # "empty_list" THEN "next"
    ELSE LET last_timestamp == entries[Len(entries)].timestamp
         IN IF last_timestamp.k = "missing" THEN "next"
            ELSE IF isoparse(last_timestamp).raised THEN "raise"
            ELSE LET last_time == isoparse(last_timestamp).dt
                     n == IF last_time.aware THEN replace_tzlocal(datetime_now(t))
                          ELSE datetime_now(t)
                 IN IF DtDiff(n, last_time) > TodoWindow THEN "true" ELSE "next"

(* One pass of the loop over todo_patterns: "true" returns True, "raise"   *)
(* leaves by an exception, "next" goes on to the next pattern.             *)
todo_pattern_step(td, name, entries, t) ==
    IF name \notin DOMAIN td \/ td[name] = "absent" THEN "next"
    ELSE IF td[name] = "badbytes" THEN "raise"        \* a ValueError, not caught
    ELSE IF td[name] # "empty_list" THEN "next"
    ELSE LET last_timestamp == entries[Len(entries)].timestamp
         IN IF last_timestamp.k = "missing" THEN "next"
            ELSE IF isoparse(last_timestamp).raised THEN "raise"
            ELSE LET last_time == isoparse(last_timestamp).dt
                     n == IF last_time.aware THEN replace_tzlocal(datetime_now(t))
                          ELSE datetime_now(t)
                 IN IF DtDiff(n, last_time) < TodoWindow THEN "true" ELSE "next"

check_waiting_for_user(entries, agent_id, session_id, td, t) ==
    LET w == is_waiting_for_user(entries)
    IN IF w.raised THEN w
       ELSE IF w.val THEN [raised |-> FALSE, val |-> TRUE]
       ELSE IF session_id = "" THEN [raised |-> FALSE, val |-> FALSE]
       ELSE LET s1 == todo_pattern_step(td, <<session_id, "">>, entries, t)
                s2 == todo_pattern_step(td, <<session_id, agent_id>>, entries, t)
            IN IF s1 = "true" THEN [raised |-> FALSE, val |-> TRUE]
               ELSE IF s1 = "raise" THEN [raised |-> TRUE, val |-> FALSE]
               ELSE IF s2 = "true" THEN [raised |-> FALSE, val |-> TRUE]
               ELSE IF s2 = "raise" THEN [raised |-> TRUE, val |-> FALSE]
               ELSE [raised |-> FALSE, val |-> FALSE]

(* The classification with the ACTIVE test ahead of the waiting check.     *)
determine_agent_status_time_first(entries, last_activity, agent_id, session_id, td, t) ==
    LET n == IF last_activity.aware THEN replace_tzlocal(datetime_now(t))
             ELSE datetime_now(t)
        time_since_activity == DtDiff(n, last_activity)
        w == check_waiting_for_user(entries, agent_id, session_id, td, t)
    IN IF time_since_activity < ActiveWindow
       THEN [raised |-> FALSE, status |-> "active"]
       ELSE IF w.raised THEN [raised |-> TRUE, status |-> "stopped"]
       ELSE IF w.val THEN [raised |-> FALSE, status |-> "waiting_for_user"]
       ELSE IF time_since_activity < IdleWindow
       THEN [raised |-> FALSE, status |-> "idle"]
       ELSE [raised |-> FALSE, status |-> "stopped"]

(* The classification with both thresholds inclusive.                      *)
determine_agent_status_inclusive(entries, last_activity, agent_id, session_id, td, t) ==
    LET n == IF last_activity.aware THEN replace_tzlocal(datetime_now(t))
             ELSE datetime_now(t)
        time_since_activity == DtDiff(n, last_activity)
        w == check_waiting_for_user(entries, agent_id, session_id, td, t)
    IN IF w.raised THEN [raised |-> TRUE, status |-> "stopped"]
       ELSE IF w.val THEN [raised |-> FALSE, status |-> "waiting_for_user"]
       ELSE IF time_since_activity <= ActiveWindow
       THEN [raised |-> FALSE, status |-> "active"]
       ELSE IF time_since_activity <= IdleWindow
       THEN [raised |-> FALSE, status |-> "idle"]
       ELSE [raised |-> FALSE, status |-> "stopped"]

determine_agent_status(entries, last_activity, agent_id, session_id, td, t) ==
    LET n == IF last_activity.aware THEN replace_tzlocal(datetime_now(t))
             ELSE datetime_now(t)
        time_since_activity == DtDiff(n, last_activity)
        w == check_waiting_for_user(entries, agent_id, session_id, td, t)
    IN IF w.raised THEN [raised |-> TRUE, status |-> "stopped"]
       ELSE IF w.val THEN [raised |-> FALSE, status |-> "waiting_for_user"]
       ELSE IF time_since_activity < ActiveWindow
       THEN [raised |-> FALSE, status |-> "active"]
       ELSE IF time_since_activity < IdleWindow
       THEN [raised |-> FALSE, status |-> "idle"]
       ELSE [raised |-> FALSE, status |-> "stopped"]

----------------------------------------------------------------------------
(* DataAggregator: building one Agent from one log file.                   *)

RECURSIVE LastCwd(_, _)
LastCwd(entries, default) ==
    IF entries = <<>> THEN default
    ELSE IF entries[Len(entries)].cwd # "" THEN entries[Len(entries)].cwd
    ELSE LastCwd(SubSeq(entries, 1, Len(entries) - 1), default)

NoAgent == [agent_id |-> "", slug |-> "", session_id |-> "", status |-> "stopped",
            project_path |-> "", current_cwd |-> "", created_at |-> NaiveDt(0),
            last_activity |-> NaiveDt(0), total_input_tokens |-> 0,
            total_output_tokens |-> 0, total_cache_creation_tokens |-> 0,
            total_cache_read_tokens |-> 0, message_count |-> 0, model |-> ""]

(* The result is [raised, built, agent]: built = FALSE is the None return. *)
(* Agent ids here are shorter than 7 characters, so agent_id[:7] is the id. *)
(* The Agent(...) construction, from agent_info and the status st that     *)
(* determine_agent_status gave.                                            *)
AgentOf(log_file, entries, agent_info, st) ==
    IF st.raised THEN [raised |-> TRUE, built |-> FALSE, agent |-> NoAgent]
    ELSE [raised |-> FALSE, built |-> TRUE, agent |->
          [agent_id |-> agent_info.agent_id,
           slug |-> IF agent_info.slug # "" THEN agent_info.slug
                    ELSE agent_info.agent_id,
           session_id |-> agent_info.session_id,
           status |-> st.status,
           project_path |-> log_file[1],
           current_cwd |-> LastCwd(entries, agent_info.project_path),
           created_at |-> agent_info.created_at,
           last_activity |-> agent_info.last_activity,
           total_input_tokens |-> agent_info.total_input_tokens,
           total_output_tokens |-> agent_info.total_output_tokens,
           total_cache_creation_tokens |-> agent_info.total_cache_creation_tokens,
           total_cache_read_tokens |-> agent_info.total_cache_read_tokens,
           message_count |-> agent_info.message_count,
           model |-> agent_info.model]]

(* From "agent_id = agent_info.get('agent_id')" on: agent_info is what     *)
(* get_agent_info_from_log gave for the entries.                           *)
AgentFromInfo(log_file, entries, agent_info, td, t) ==
    IF agent_info.raised THEN [raised |-> TRUE, built |-> FALSE, agent |-> NoAgent]
    ELSE IF agent_info.agent_id = ""
    THEN [raised |-> FALSE, built |-> FALSE, agent |-> NoAgent]
    ELSE AgentOf(log_file, entries, agent_info,
                 determine_agent_status(entries, agent_info.last_activity,
                     agent_info.agent_id, agent_info.session_id, td, t))

(* From "if not entries" on: entries is what parse_log_file gave.          *)
AgentFromEntries(log_file, entries, td, t) ==
    IF entries = <<>> THEN [raised |-> FALSE, built |-> FALSE, agent |-> NoAgent]
    ELSE AgentFromInfo(log_file, entries, get_agent_info_from_log(entries, t), td, t)

(* From "entries = self.parser.parse_log_file(log_file)" on: parsed is     *)
(* what the call gave.                                                     *)
AgentFromParsed(log_file, parsed, td, t) ==
    IF parsed.raised THEN [raised |-> TRUE, built |-> FALSE, agent |-> NoAgent]
    ELSE AgentFromEntries(log_file, parsed.entries, td, t)

parse_agent_log(log_file, file, td, t) ==
    AgentFromParsed(log_file, parse_log_file(file), td, t)

----------------------------------------------------------------------------
(* Pricing (utils/pricing.py).  Rates are in units of 1e-8 USD per token,  *)
(* costs in units of 1e-6 USD.                                             *)

DEFAULT_PRICING == [input |-> 300, output |-> 1500, cache_creation |-> 375,
                    cache_read |-> 30]

(* The PRICING table is filled by initialize_pricing only; the application *)
(* never calls it, so every lookup falls through to the default.           *)
get_pricing(model) == DEFAULT_PRICING

(* Decimal.quantize(Decimal("0.000001")) under ROUND_HALF_EVEN.            *)
quantize(total) ==
    LET q == total \div 100
        r == total % 100
    IN IF r > 50 \/ (r = 50 /\ q % 2 = 1) THEN q + 1 ELSE q

calculate_cost(model, input_tokens, output_tokens, cache_creation_tokens, cache_read_tokens) ==
    LET pricing == get_pricing(model)
    IN quantize(input_tokens * pricing.input + output_tokens * pricing.output
                + cache_creation_tokens * pricing.cache_creation
                + cache_read_tokens * pricing.cache_read)

total_cost(agent) ==
    calculate_cost(agent.model, agent.total_input_tokens, agent.total_output_tokens,
                   agent.total_cache_creation_tokens, agent.total_cache_read_tokens)

----------------------------------------------------------------------------
(* Usage metrics (models/usage_metrics.py, aggregator.py).                 *)

DayMs == 24 * 3600 * 1000

(* Clock reading 0 is a Wednesday, 10:00 UTC.                              *)
ClockPhase == 2 * DayMs + 10 * 3600 * 1000

weekday(t) == ((t + ClockPhase) \div DayMs) % 7

(* replace(hour=0, minute=0, second=0, microsecond=0) on a UTC instant.    *)
midnight(t) == t - ((t + ClockPhase) % DayMs)

(* Without the days_until_monday == 0 branch.                              *)
calculate_next_monday_utc_same_day(t) ==
    LET days_until_monday == (7 - weekday(t)) % 7
    IN AwareDt(midnight(t + days_until_monday * DayMs))

calculate_next_monday_utc(t) ==
    LET d == (7 - weekday(t)) % 7
        days_until_monday == IF d = 0 THEN 7 ELSE d
    IN AwareDt(midnight(t + days_until_monday * DayMs))

NoneDt == [aware |-> FALSE, val |-> -1]

UsageMetricsZero ==
    [session_total_tokens |-> 0, session_request_count |-> 0,
     session_start_time |-> NoneDt, weekly_total_tokens |-> 0,
     weekly_request_count |-> 0, weekly_start_time |-> NoneDt,
     next_reset_time |-> NoneDt, subscription_type |-> "pro"]

load_subscription_type(cr) ==
    IF cr = "absent" THEN [raised |-> FALSE, val |-> "pro"]
    ELSE IF cr = "garbage" THEN [raised |-> FALSE, val |-> "pro"]   \* JSONDecodeError
    ELSE IF cr \in {"nonobject", "null_oauth"}
    THEN [raised |-> TRUE, val |-> "pro"]                           \* AttributeError
    ELSE IF cr = "no_subscription" THEN [raised |-> FALSE, val |-> "pro"]
    ELSE [raised |-> FALSE, val |-> cr]

(* astimezone(utc) of an aware datetime, replace(tzinfo=utc) of a naive.   *)
to_utc(d) == AwareDt(d.val)

(* The loop over one file's entries in calculate_usage_metrics.            *)
RECURSIVE UsageOverEntries(_, _, _, _, _)
UsageOverEntries(entries, acc, session_start, weekly_start, t) ==
    IF entries = <<>> \/ acc.raised THEN acc
    ELSE LET usage_data == extract_usage_data(Head(entries), t)
             entry_time == to_utc(usage_data.timestamp)
             tt == total_tokens(usage_data)
             in_session == entry_time.val >= to_utc(session_start).val
             in_week == entry_time.val >= weekly_start.val
             a == IF usage_data.raised THEN [acc EXCEPT !.raised = TRUE]
                  ELSE IF ~usage_data.some THEN acc
                  ELSE [acc EXCEPT
                          !.m.session_total_tokens = IF in_session THEN @ + tt ELSE @,
                          !.m.session_request_count = IF in_session THEN @ + 1 ELSE @,
                          !.m.weekly_total_tokens = IF in_week THEN @ + tt ELSE @,
                          !.m.weekly_request_count = IF in_week THEN @ + 1 ELSE @]
         IN UsageOverEntries(Tail(entries), a, session_start, weekly_start, t)

UsageOverParsed(parsed, acc, session_start, weekly_start, t) ==
    IF parsed.raised THEN [acc EXCEPT !.raised = TRUE]
    ELSE UsageOverEntries(parsed.entries, acc, session_start, weekly_start, t)

RECURSIVE UsageOverFiles(_, _, _, _, _, _)
UsageOverFiles(order, fs, acc, session_start, weekly_start, t) ==
    IF order = <<>> \/ acc.raised THEN acc
    ELSE UsageOverFiles(Tail(order), fs,
             UsageOverParsed(parse_log_file(fs[Head(order)]), acc, session_start,
                             weekly_start, t),
             session_start, weekly_start, t)

(* With the week's boundary left at the time of day of the call.           *)
calculate_usage_metrics_no_midnight(session_start, order, pe, fs, cr, t) ==
    LET weekly_start == AwareDt(t - weekday(t) * DayMs)
        m0 == [UsageMetricsZero EXCEPT !.session_start_time = session_start,
                                       !.weekly_start_time = weekly_start,
                                       !.next_reset_time = calculate_next_monday_utc(t)]
        walked == IF pe
                  THEN UsageOverFiles(order, fs, [raised |-> FALSE, m |-> m0],
                                      session_start, weekly_start, t)
                  ELSE [raised |-> FALSE, m |-> m0]
        sub == load_subscription_type(cr)
    IN IF walked.raised \/ sub.raised THEN [raised |-> TRUE, m |-> m0]
       ELSE [raised |-> FALSE, m |-> [walked.m EXCEPT !.subscription_type = sub.val]]

(* calculate_usage_metrics walking only the log files an Agent is built    *)
(* from.                                                                   *)
calculate_usage_metrics_agents_only(session_start, order, pe, fs, cr, t) ==
    LET weekly_start == AwareDt(midnight(t - weekday(t) * DayMs))
        m0 == [UsageMetricsZero EXCEPT !.session_start_time = session_start,
                                       !.weekly_start_time = weekly_start,
                                       !.next_reset_time = calculate_next_monday_utc(t)]
        with_agent == [p \in DOMAIN fs |->
                         IF parse_agent_log(p, fs[p], [n \in TodoNames |-> "absent"], t).built
                         THEN fs[p] ELSE NoFile]
        walked == IF pe
                  THEN UsageOverFiles(order, with_agent, [raised |-> FALSE, m |-> m0],
                                      session_start, weekly_start, t)
                  ELSE [raised |-> FALSE, m |-> m0]
        sub == load_subscription_type(cr)
    IN IF walked.raised \/ sub.raised THEN [raised |-> TRUE, m |-> m0]
       ELSE [raised |-> FALSE, m |-> [walked.m EXCEPT !.subscription_type = sub.val]]

calculate_usage_metrics(session_start, order, pe, fs, cr, t) ==
    LET weekly_start == AwareDt(midnight(t - weekday(t) * DayMs))
        m0 == [UsageMetricsZero EXCEPT !.session_start_time = session_start,
                                       !.weekly_start_time = weekly_start,
                                       !.next_reset_time = calculate_next_monday_utc(t)]
        walked == IF pe
                  THEN UsageOverFiles(order, fs, [raised |-> FALSE, m |-> m0],
                                      session_start, weekly_start, t)
                  ELSE [raised |-> FALSE, m |-> m0]
        sub == load_subscription_type(cr)
    IN IF walked.raised \/ sub.raised THEN [raised |-> TRUE, m |-> m0]
       ELSE [raised |-> FALSE, m |-> [walked.m EXCEPT !.subscription_type = sub.val]]

----------------------------------------------------------------------------
(* DataAggregator: the scan.                                               *)

(* DataAggregator.start_time: the aggregator is constructed at clock 0.    *)
start_time == datetime_now(0)

SystemMetricsZero ==
    [total_agents |-> 0, active_agents |-> 0, idle_agents |-> 0,
     waiting_for_user |-> 0, stopped_agents |-> 0, total_sessions |-> 0,
     total_input_tokens |-> 0, total_output_tokens |-> 0,
     total_cache_creation_tokens |-> 0, total_cache_read_tokens |-> 0,
     total_cost |-> 0, uptime |-> 0, usage_metrics |-> UsageMetricsZero]

empty_metrics == SystemMetricsZero

RECURSIVE SumAgents(_, _)
SumAgents(ags, m) ==
    IF ags = <<>> THEN m
    ELSE LET agent == Head(ags)
         IN SumAgents(Tail(ags),
                [m EXCEPT
                   !.total_input_tokens = @ + agent.total_input_tokens,
                   !.total_output_tokens = @ + agent.total_output_tokens,
                   !.total_cache_creation_tokens = @ + agent.total_cache_creation_tokens,
                   !.total_cache_read_tokens = @ + agent.total_cache_read_tokens,
                   !.total_cost = @ + total_cost(agent),
                   !.active_agents = IF agent.status = "active" THEN @ + 1 ELSE @,
                   !.idle_agents = IF agent.status = "idle" THEN @ + 1 ELSE @,
                   !.waiting_for_user =
                       IF agent.status = "waiting_for_user" THEN @ + 1 ELSE @,
                   !.stopped_agents = IF agent.status = "stopped" THEN @ + 1 ELSE @])

(* _calculate_metrics leaving the STOPPED agents out of the loop.          *)
calculate_metrics_skip_stopped(ags, sess, t) ==
    [SumAgents(SelectSeq(ags, LAMBDA a : a.status # "stopped"),
               [SystemMetricsZero EXCEPT !.total_agents = Len(ags),
                                         !.total_sessions = Cardinality(sess)])
       EXCEPT !.uptime = DtDiff(datetime_now(t), start_time)]

calculate_metrics(ags, sess, t) ==
    [SumAgents(ags, [SystemMetricsZero EXCEPT !.total_agents = Len(ags),
                                              !.total_sessions = Cardinality(sess)])
       EXCEPT !.uptime = DtDiff(datetime_now(t), start_time)]

(* self.agents[agent.agent_id] = agent: a dict keeps the position of a key *)
(* it already holds.                                                       *)
DictPut(ags, agent) ==
    IF \E i \in DOMAIN ags : ags[i].agent_id = agent.agent_id
    THEN [i \in DOMAIN ags |-> IF ags[i].agent_id = agent.agent_id THEN agent ELSE ags[i]]
    ELSE Append(ags, agent)

(* scan_project_logs over the paths in the order the directory walk gives  *)
(* them; an exception leaves the loop with what was built so far.          *)
(* The body of the loop of _scan_project_logs, r being what               *)
(* _parse_agent_log gave for the file.                                     *)
PutParsed(acc, r) ==
    IF r.raised THEN [acc EXCEPT !.raised = TRUE]
    ELSE IF r.built
    THEN [acc EXCEPT !.agents = DictPut(@, r.agent),
                     !.sessions = @ \cup {r.agent.session_id}]
    ELSE acc

RECURSIVE ScanFiles(_, _, _, _, _)
ScanFiles(order, acc, fs, td, t) ==
    IF order = <<>> \/ acc.raised THEN acc
    ELSE ScanFiles(Tail(order),
             PutParsed(acc, parse_agent_log(Head(order), fs[Head(order)], td, t)),
             fs, td, t)

(* The dicts and the metrics right after the two clear() calls.            *)
Cleared == [raised |-> FALSE, agents |-> <<>>, sessions |-> {},
            metrics |-> empty_metrics]

(* "return self._calculate_metrics()" at the end of a walk w.              *)
WithMetrics(w, t) ==
    IF w.raised THEN w
    ELSE [w EXCEPT !.metrics = calculate_metrics(w.agents, w.sessions, t)]

(* scan_all_logs with the two clear() calls moved behind the existence     *)
(* test: a missing projects directory leaves the dicts as they were.       *)
scan_all_logs_clear_after_test(ags0, sess0, order, pe, fs, td, t) ==
    IF ~pe THEN [Cleared EXCEPT !.agents = ags0, !.sessions = sess0]
    ELSE WithMetrics(ScanFiles(order, Cleared, fs, td, t), t)

(* scan_all_logs without the two clear() calls: the walk adds to the dicts *)
(* the previous scan left.                                                 *)
scan_all_logs_no_clear(ags0, sess0, order, pe, fs, td, t) ==
    IF ~pe THEN Cleared
    ELSE WithMetrics(ScanFiles(order, [Cleared EXCEPT !.agents = ags0,
                                                      !.sessions = sess0], fs, td, t), t)

(* The result is [raised, agents, sessions, metrics].  ags0 and sess0 are  *)
(* the dicts as the call finds them.                                       *)
scan_all_logs(ags0, sess0, order, pe, fs, td, t) ==
    IF ~pe THEN Cleared
    ELSE WithMetrics(ScanFiles(order, Cleared, fs, td, t), t)

----------------------------------------------------------------------------
(* DataAggregator: accessors.                                              *)

(* The agent ids in use, in string order.                                  *)
IdOrder == <<"a1", "a2", "a3">>

IdRank(id) == IF \E i \in DOMAIN IdOrder : IdOrder[i] = id
              THEN CHOOSE i \in DOMAIN IdOrder : IdOrder[i] = id
              ELSE 0

SortKey(agent, criterion) ==
    CASE criterion = "last_activity" -> agent.last_activity.val
      [] criterion = "cost" -> total_cost(agent)
      [] criterion = "tokens" -> agent.total_input_tokens + agent.total_output_tokens
      [] OTHER -> IdRank(agent.agent_id)

(* list.sort is stable, with reverse=True too: x goes behind every element *)
(* that does not have to follow it.                                        *)
InsertStable(sorted, x, criterion) ==
    LET before(e) == IF criterion = "agent_id"
                     THEN SortKey(e, criterion) <= SortKey(x, criterion)
                     ELSE SortKey(e, criterion) >= SortKey(x, criterion)
        n == Cardinality({i \in DOMAIN sorted : before(sorted[i])})
    IN SubSeq(sorted, 1, n) \o <<x>> \o SubSeq(sorted, n + 1, Len(sorted))

RECURSIVE StableSort(_, _, _)
StableSort(rest, sorted, criterion) ==
    IF rest = <<>> THEN sorted
    ELSE StableSort(Tail(rest), InsertStable(sorted, Head(rest), criterion), criterion)

(* Comparing a naive with an aware datetime raises TypeError.              *)
get_all_agents_sorted(ags, criterion) ==
    IF criterion = "last_activity"
       /\ \E i, j \in DOMAIN ags : ~DtComparable(ags[i].last_activity, ags[j].last_activity)
    THEN [raised |-> TRUE, agents |-> <<>>]
    ELSE IF criterion \in {"last_activity", "cost", "tokens", "agent_id"}
    THEN [raised |-> FALSE, agents |-> StableSort(ags, <<>>, criterion)]
    ELSE [raised |-> FALSE, agents |-> ags]

RECURSIVE SelectStatus(_, _)
SelectStatus(ags, status) ==
    IF ags = <<>> THEN <<>>
    ELSE IF Head(ags).status = status
    THEN <<Head(ags)>> \o SelectStatus(Tail(ags), status)
    ELSE SelectStatus(Tail(ags), status)

get_waiting_agents(ags) == SelectStatus(ags, "waiting_for_user")

----------------------------------------------------------------------------
(* CCTopApp (app.py) and the notifier thread (watchers/file_watcher.py).   *)

MaxQueue == 1

MaxEvents == 2

MaxLines == 2

SortOptions == <<"last_activity", "cost", "tokens", "agent_id">>

FilterOptions == <<"none", "active", "idle", "waiting_for_user", "stopped">>

NextOption(options, current) ==
    LET i == CHOOSE k \in DOMAIN options : options[k] = current
    IN options[(i % Len(options)) + 1]

(* time.time(): seconds since the epoch, far from 0.                       *)
time_time(t) == t + 10 * DayMs

NoPublished == [metrics |-> SystemMetricsZero, agents |-> <<>>, waiting_agents |-> <<>>]

(* History.  raised: some refresh cycle left by an exception.  scanned:    *)
(* scan_all_logs has run.  scan_raised: its last run raised.  changed:     *)
(* what changed since the last run began -- the name of a log file that    *)
(* was written or removed, "todos/<session>", "clock".  quiet: the last    *)
(* run had a run before it, and between the two only the clock changed.    *)
(* prev_accept, last_accept: the time.time() readings at which the         *)
(* handler took the last two notifier events that passed the debounce.     *)
(* last_raised: the reading at which the observer raised the last of       *)
(* them.  last_handled: what became of the notifier event handled last.    *)
(* owed: how many notifier events passed the debounce and have not yet     *)
(* had their scan started.  scan_of_late: a scan was started by a callback *)
(* that arrived while another scan was in progress.                        *)
HistZero == [raised |-> FALSE, scanned |-> FALSE, scan_raised |-> FALSE,
             changed |-> {}, quiet |-> FALSE,
             prev_accept |-> -1, last_accept |-> -1, last_raised |-> -1,
             last_handled |-> "none", owed |-> 0, scan_of_late |-> FALSE]

CorpusSize == Len(files[<<"projA", "agent-a1.jsonl">>].lines)
              + Len(files[<<"projB", "agent-a2.jsonl">>].lines)

Callback(cb) == [cb |-> cb, late |-> app_pc = "scanned"]

WatcherRunning == watcher_pc \in {"idle", "blocked"}

(* Line 112 of refresh_data: scan_all_logs, run for the callback c, with   *)
(* pe the existence of the projects directory and wpc the notifier         *)
(* thread's position as the call finds them; ScanOutcome is what the call  *)
(* leaves, r being its result.  An exception ends the                      *)
(* callback: raised in a callback of the application thread it ends the    *)
(* application (and on_unmount stops the notifier), raised in a            *)
(* call_from_thread callback it is handed to the waiting notifier thread   *)
(* and ends that thread.                                                   *)
ScanOutcome(c, wpc, r) ==
    /\ agents' = r.agents
    /\ sessions' = r.sessions
    /\ metrics' = IF r.raised THEN metrics ELSE r.metrics
    /\ IF r.raised
       THEN /\ scanners' = scanners
            /\ cur' = "none"
            /\ app_pc' = IF c.cb = "watch" THEN "idle" ELSE "crashed"
            /\ watcher_pc' = IF c.cb = "watch" THEN "dead"
                             ELSE IF wpc \in {"idle", "blocked"} THEN "stopped"
                             ELSE wpc
       ELSE /\ scanners' = scanners \cup {"app"}
            /\ cur' = c.cb
            /\ app_pc' = "scanned"
            /\ watcher_pc' = wpc
    /\ hist' = [hist EXCEPT
                  !.raised = @ \/ r.raised,
                  !.scanned = TRUE,
                  !.scan_raised = r.raised,
                  !.changed = {},
                  !.owed = IF c.cb = "watch" THEN @ - 1 ELSE @,
                  !.scan_of_late = @ \/ c.late,
                  !.quiet = hist.scanned /\ hist.changed \subseteq {"clock"}]

BeginRefresh(c, pe, wpc) ==
    \E order \in ScanOrders :
        \E r \in {scan_all_logs(agents, sessions, order, pe, files, todos, now)} :
            ScanOutcome(c, wpc, r)

NotLate(c) == ~c.late

(* The end of refresh_data in an application that throws away, when a scan *)
(* finishes, the callbacks that arrived while it ran.                      *)
RefreshFinish_discard_late ==
    /\ app_pc = "scanned"
    /\ \E order \in ScanOrders :
        \E sorted \in {get_all_agents_sorted(agents, sort_by)} :
        \E usage \in {calculate_usage_metrics(start_time, order, projects_exists,
                                              files, creds, now)} :
        \E failed \in {sorted.raised \/ usage.raised} :
           /\ published' =
                  IF failed THEN published
                  ELSE [metrics |-> [metrics EXCEPT !.usage_metrics = usage.m],
                        agents |-> IF filter_status = "none" THEN sorted.agents
                                   ELSE SelectStatus(sorted.agents, filter_status),
                        waiting_agents |-> get_waiting_agents(agents)]
           /\ app_pc' = IF failed /\ cur # "watch" THEN "crashed" ELSE "idle"
           /\ watcher_pc' = IF cur = "watch"
                            THEN (IF failed THEN "dead" ELSE "idle")
                            ELSE IF failed /\ WatcherRunning THEN "stopped"
                            ELSE watcher_pc
           /\ hist' = [hist EXCEPT !.raised = @ \/ failed]
    /\ cur' = "none"
    /\ scanners' = scanners \ {"app"}
    /\ app_queue' = SelectSeq(app_queue, NotLate)
    /\ UNCHANGED <<now, projects_exists, files, todos, creds, agents, sessions, metrics,
                   sort_by, filter_status, disable_watcher, last_refresh_time,
                   fs_events>>
    /\ UNCHANGED lib_vars

(* Lines 113-143 of refresh_data: sort, usage metrics, filter, publish.    *)
RefreshFinish ==
    /\ app_pc = "scanned"
    /\ \E order \in ScanOrders :
        \E sorted \in {get_all_agents_sorted(agents, sort_by)} :
        \E usage \in {calculate_usage_metrics(start_time, order, projects_exists,
                                              files, creds, now)} :
        \E failed \in {sorted.raised \/ usage.raised} :
           /\ published' =
                  IF failed THEN published
                  ELSE [metrics |-> [metrics EXCEPT !.usage_metrics = usage.m],
                        agents |-> IF filter_status = "none" THEN sorted.agents
                                   ELSE SelectStatus(sorted.agents, filter_status),
                        waiting_agents |-> get_waiting_agents(agents)]
           /\ app_pc' = IF failed /\ cur # "watch" THEN "crashed" ELSE "idle"
           /\ watcher_pc' = IF cur = "watch"
                            THEN (IF failed THEN "dead" ELSE "idle")
                            ELSE IF failed /\ WatcherRunning THEN "stopped"
                            ELSE watcher_pc
           /\ hist' = [hist EXCEPT !.raised = @ \/ failed]
    /\ cur' = "none"
    /\ scanners' = scanners \ {"app"}
    /\ UNCHANGED <<now, projects_exists, files, todos, creds, agents, sessions, metrics,
                   sort_by, filter_status, disable_watcher, last_refresh_time,
                   app_queue, fs_events>>
    /\ UNCHANGED lib_vars

(* on_mount: start the notifier unless disabled (LogFileWatcher.start      *)
(* creates the projects directory when it is missing), start the timer,    *)
(* and run the first refresh.                                              *)
on_mount ==
    /\ app_pc = "unmounted"
    /\ projects_exists' = (projects_exists \/ ~disable_watcher)
    /\ BeginRefresh([cb |-> "mount", late |-> FALSE],
                    projects_exists \/ ~disable_watcher,
                    IF disable_watcher THEN "off" ELSE "idle")
    /\ UNCHANGED <<now, files, todos, creds, published, sort_by, filter_status,
                   disable_watcher, last_refresh_time, app_queue, fs_events>>
    /\ UNCHANGED lib_vars

RemoveAt(q, i) == SubSeq(q, 1, i - 1) \o SubSeq(q, i + 1, Len(q))

AppRunning == app_pc \in {"idle", "scanned"}

(* The timer started by set_interval comes due: periodic_refresh waits on  *)
(* the application's event loop.  The timer's task awaits its callback     *)
(* before it sleeps again, so at most one waits at a time.                 *)
timer_fires ==
    /\ AppRunning
    /\ \A i \in DOMAIN app_queue : app_queue[i].cb # "timer"
    /\ app_queue' = Append(app_queue, Callback("timer"))
    /\ UNCHANGED <<now, projects_exists, files, todos, creds, agents, sessions, metrics,
                   published, sort_by, filter_status, disable_watcher, last_refresh_time,
                   app_pc, cur, watcher_pc, fs_events, scanners, hist>>
    /\ UNCHANGED lib_vars

(* A bound key is pressed: its action waits on the event loop.             *)
key_press(k) ==
    /\ AppRunning
    /\ Len(app_queue) < MaxQueue
    /\ app_queue' = Append(app_queue, Callback(k))
    /\ UNCHANGED <<now, projects_exists, files, todos, creds, agents, sessions, metrics,
                   published, sort_by, filter_status, disable_watcher, last_refresh_time,
                   app_pc, cur, watcher_pc, fs_events, scanners, hist>>
    /\ UNCHANGED lib_vars

(* The event loop runs one waiting callback at a time; the order among     *)
(* callbacks that wait through different mechanisms is not fixed.          *)
(* periodic_refresh without the test of _disable_watcher.                  *)
periodic_refresh_always ==
    /\ app_pc = "idle"
    /\ \E i \in DOMAIN app_queue :
        /\ app_queue[i].cb = "timer"
        /\ app_queue' = RemoveAt(app_queue, i)
        /\ BeginRefresh(app_queue[i], projects_exists, watcher_pc)
    /\ UNCHANGED <<now, projects_exists, files, todos, creds, published, sort_by,
                   filter_status, disable_watcher, last_refresh_time, fs_events>>
    /\ UNCHANGED lib_vars

periodic_refresh ==
    /\ app_pc = "idle"
    /\ \E i \in DOMAIN app_queue :
        /\ app_queue[i].cb = "timer"
        /\ app_queue' = RemoveAt(app_queue, i)
        /\ IF disable_watcher
           THEN BeginRefresh(app_queue[i], projects_exists, watcher_pc)
           ELSE UNCHANGED <<agents, sessions, metrics, scanners, cur, app_pc,
                            watcher_pc, hist>>
    /\ UNCHANGED <<now, projects_exists, files, todos, creds, published, sort_by,
                   filter_status, disable_watcher, last_refresh_time, fs_events>>
    /\ UNCHANGED lib_vars

action_refresh ==
    /\ app_pc = "idle"
    /\ \E i \in DOMAIN app_queue :
        /\ app_queue[i].cb = "key_r"
        /\ app_queue' = RemoveAt(app_queue, i)
        /\ BeginRefresh(app_queue[i], projects_exists, watcher_pc)
    /\ UNCHANGED <<now, projects_exists, files, todos, creds, published, sort_by,
                   filter_status, disable_watcher, last_refresh_time, fs_events>>
    /\ UNCHANGED lib_vars

action_toggle_sort ==
    /\ app_pc = "idle"
    /\ \E i \in DOMAIN app_queue :
        /\ app_queue[i].cb = "key_s"
        /\ app_queue' = RemoveAt(app_queue, i)
        /\ sort_by' = NextOption(SortOptions, sort_by)
        /\ BeginRefresh(app_queue[i], projects_exists, watcher_pc)
    /\ UNCHANGED <<now, projects_exists, files, todos, creds, published,
                   filter_status, disable_watcher, last_refresh_time, fs_events>>
    /\ UNCHANGED lib_vars

action_toggle_filter ==
    /\ app_pc = "idle"
    /\ \E i \in DOMAIN app_queue :
        /\ app_queue[i].cb = "key_f"
        /\ app_queue' = RemoveAt(app_queue, i)
        /\ filter_status' = NextOption(FilterOptions, filter_status)
        /\ BeginRefresh(app_queue[i], projects_exists, watcher_pc)
    /\ UNCHANGED <<now, projects_exists, files, todos, creds, published, sort_by,
                   disable_watcher, last_refresh_time, fs_events>>
    /\ UNCHANGED lib_vars

(* The callback handed over by call_from_thread: refresh_data.             *)
run_thread_callback ==
    /\ app_pc = "idle"
    /\ \E i \in DOMAIN app_queue :
        /\ app_queue[i].cb = "watch"
        /\ app_queue' = RemoveAt(app_queue, i)
        /\ BeginRefresh(app_queue[i], projects_exists, watcher_pc)
    /\ UNCHANGED <<now, projects_exists, files, todos, creds, published, sort_by,
                   filter_status, disable_watcher, last_refresh_time, fs_events>>
    /\ UNCHANGED lib_vars

----------------------------------------------------------------------------
(* The notifier thread.  The observer hands its events to the handler one  *)
(* at a time, in order.                                                    *)

(* on_modified for a directory: dropped by the handler.                    *)
on_modified_directory ==
    /\ watcher_pc = "idle"
    /\ fs_events # <<>>
    /\ Head(fs_events).kind = "dir"
    /\ fs_events' = Tail(fs_events)
    /\ UNCHANGED <<now, projects_exists, files, todos, creds, agents, sessions, metrics,
                   published, sort_by, filter_status, disable_watcher, last_refresh_time,
                   app_pc, app_queue, cur, watcher_pc, scanners, hist>>
    /\ UNCHANGED lib_vars

(* The handler without the debounce test: every event starts a rescan.     *)
on_log_file_changed_no_debounce ==
    /\ watcher_pc = "idle"
    /\ fs_events # <<>>
    /\ Head(fs_events).kind = "log"
    /\ fs_events' = Tail(fs_events)
    /\ last_refresh_time' = time_time(now)
    /\ app_queue' = Append(app_queue, Callback("watch"))
    /\ watcher_pc' = "blocked"
    /\ hist' = [hist EXCEPT !.prev_accept = hist.last_accept,
                            !.last_accept = time_time(now),
                            !.last_raised = time_time(Head(fs_events).at),
                            !.last_handled = "accepted",
                            !.owed = @ + 1]
    /\ UNCHANGED <<now, projects_exists, files, todos, creds, agents, sessions, metrics,
                   published, sort_by, filter_status, disable_watcher, app_pc, cur,
                   scanners>>
    /\ UNCHANGED lib_vars

(* The handler calling refresh_data itself, on the notifier thread,        *)
(* instead of handing it to the application's event loop.                  *)
on_log_file_changed_direct ==
    /\ watcher_pc = "idle"
    /\ fs_events # <<>>
    /\ Head(fs_events).kind = "log"
    /\ fs_events' = Tail(fs_events)
    /\ IF time_time(now) - last_refresh_time < DebounceWindow
       THEN /\ hist' = [hist EXCEPT !.last_handled = "dropped"]
            /\ UNCHANGED <<last_refresh_time, watcher_pc, agents, sessions, metrics,
                           scanners>>
       ELSE /\ last_refresh_time' = time_time(now)
            /\ watcher_pc' = "scanning"
            /\ scanners' = scanners \cup {"watcher"}
            /\ \E order \in ScanOrders :
                  \E r \in {scan_all_logs(agents, sessions, order, projects_exists,
                                          files, todos, now)} :
                     /\ agents' = r.agents
                     /\ sessions' = r.sessions
                     /\ metrics' = r.metrics
            /\ hist' = [hist EXCEPT !.prev_accept = hist.last_accept,
                                    !.last_accept = time_time(now),
                                    !.last_raised = time_time(Head(fs_events).at),
                                    !.last_handled = "accepted",
                                    !.changed = {}]
    /\ UNCHANGED <<now, projects_exists, files, todos, creds, published, sort_by,
                   filter_status, disable_watcher, app_pc, app_queue, cur>>
    /\ UNCHANGED lib_vars

(* on_modified / on_created for a matching log file: on_log_file_changed,  *)
(* on the notifier thread.  call_from_thread hands refresh_data to the     *)
(* application's event loop and blocks until it has run.                   *)
on_log_file_changed ==
    /\ watcher_pc = "idle"
    /\ fs_events # <<>>
    /\ Head(fs_events).kind = "log"
    /\ fs_events' = Tail(fs_events)
    /\ LET current_time == time_time(now)
       IN IF current_time - last_refresh_time < DebounceWindow
          THEN /\ hist' = [hist EXCEPT !.last_handled = "dropped"]
               /\ UNCHANGED <<last_refresh_time, app_queue, watcher_pc>>
          ELSE /\ last_refresh_time' = current_time
               /\ app_queue' = Append(app_queue, Callback("watch"))
               /\ watcher_pc' = "blocked"
               /\ hist' = [hist EXCEPT !.prev_accept = hist.last_accept,
                                       !.last_accept = current_time,
                                       !.last_raised = time_time(Head(fs_events).at),
                                       !.last_handled = "accepted",
                                       !.owed = @ + 1]
    /\ UNCHANGED <<now, projects_exists, files, todos, creds, agents, sessions, metrics,
                   published, sort_by, filter_status, disable_watcher, app_pc, cur,
                   scanners>>
    /\ UNCHANGED lib_vars

----------------------------------------------------------------------------
(* The environment: the clock and the processes that write the files.      *)

Tick(points) ==
    /\ \E t \in points : t > now /\ now' = t
    /\ hist' = [hist EXCEPT !.changed = @ \cup {"clock"}]
    /\ UNCHANGED <<projects_exists, files, todos, creds, agents, sessions, metrics,
                   published, sort_by, filter_status, disable_watcher, last_refresh_time,
                   app_pc, app_queue, cur, watcher_pc, fs_events, scanners>>
    /\ UNCHANGED lib_vars

(* While the notifier runs, a change under the projects directory puts     *)
(* events of the given kinds into the observer, stamped with the clock.    *)
Notify(kinds) ==
    IF WatcherRunning
    THEN /\ Len(fs_events) + Len(kinds) <= MaxEvents
         /\ fs_events' = fs_events \o [i \in DOMAIN kinds |->
                                          [kind |-> kinds[i], at |-> now]]
    ELSE fs_events' = fs_events

(* A line is appended to a log file; the file is created when missing,     *)
(* which the observer reports for the file and for its directory.  The     *)
(* corpus holds at most MaxLines lines.                                    *)
write_log(p, line) ==
    /\ projects_exists
    /\ CorpusSize < MaxLines
    /\ files' = [files EXCEPT ![p] = [exists |-> TRUE, readable |-> TRUE,
                                      lines |-> Append(@.lines, line)]]
    /\ Notify(IF files[p].exists THEN <<"log">> ELSE <<"log", "dir">>)
    /\ hist' = [hist EXCEPT !.changed = @ \cup {p[2]}]
    /\ UNCHANGED <<now, projects_exists, todos, creds, agents, sessions, metrics,
                   published, sort_by, filter_status, disable_watcher, last_refresh_time,
                   app_pc, app_queue, cur, watcher_pc, scanners>>
    /\ UNCHANGED lib_vars

remove_log(p) ==
    /\ files[p].exists
    /\ files' = [files EXCEPT ![p] = NoFile]
    /\ Notify(<<"dir">>)
    /\ hist' = [hist EXCEPT !.changed = @ \cup {p[2]}]
    /\ UNCHANGED <<now, projects_exists, todos, creds, agents, sessions, metrics,
                   published, sort_by, filter_status, disable_watcher, last_refresh_time,
                   app_pc, app_queue, cur, watcher_pc, scanners>>
    /\ UNCHANGED lib_vars

(* The mark a change to a todo file of the session leaves in hist.changed. *)
TodoTag(session_id) == IF session_id = "s1" THEN "todos/s1" ELSE "todos/s2"

(* The whole projects directory is removed (the notifier is not running).  *)
remove_projects ==
    /\ projects_exists
    /\ ~WatcherRunning
    /\ projects_exists' = FALSE
    /\ files' = [p \in LogPaths |-> NoFile]
    /\ hist' = [hist EXCEPT !.changed = @ \cup {p[2] : p \in LogPaths}]
    /\ UNCHANGED <<now, todos, creds, agents, sessions, metrics, published, sort_by,
                   filter_status, disable_watcher, last_refresh_time, app_pc, app_queue,
                   cur, watcher_pc, fs_events, scanners>>
    /\ UNCHANGED lib_vars

make_projects ==
    /\ ~projects_exists
    /\ projects_exists' = TRUE
    /\ hist' = [hist EXCEPT !.changed = @ \cup {p[2] : p \in LogPaths}]
    /\ UNCHANGED <<now, files, todos, creds, agents, sessions, metrics, published,
                   sort_by, filter_status, disable_watcher, last_refresh_time, app_pc,
                   app_queue, cur, watcher_pc, fs_events, scanners>>
    /\ UNCHANGED lib_vars

write_todo(name, content) ==
    /\ todos[name] # content
    /\ todos' = [todos EXCEPT ![name] = content]
    /\ hist' = [hist EXCEPT !.changed = @ \cup {TodoTag(name[1])}]
    /\ UNCHANGED <<now, projects_exists, files, creds, agents, sessions, metrics,
                   published, sort_by, filter_status, disable_watcher, last_refresh_time,
                   app_pc, app_queue, cur, watcher_pc, fs_events, scanners>>
    /\ UNCHANGED lib_vars

write_creds(content) ==
    /\ creds # content
    /\ creds' = content
    /\ UNCHANGED <<now, projects_exists, files, todos, agents, sessions, metrics,
                   published, sort_by, filter_status, disable_watcher, last_refresh_time,
                   app_pc, app_queue, cur, watcher_pc, fs_events, scanners, hist>>
    /\ UNCHANGED lib_vars

----------------------------------------------------------------------------
(* Specifications.  Init is the application as main() leaves it before     *)
(* app.run(): constructed, nothing scanned, the clock at 0.                *)

(* The library state before any call: the module globals of               *)
(* utils/pricing.py as the import leaves them, no cache file.              *)
NoTable == [m \in {} |-> 0]

NoCacheFile == [k |-> "missing"]

NoInput == [k |-> "none"]

NoOutput == [op |-> "none"]

Savers == {1, 2}

IdleSaver == [pc |-> "idle", data |-> NoTable, at |-> 0, handle |-> "none", ret |-> "none"]

NoTailFile == [exists |-> FALSE, ino |-> 0, content |-> <<>>]

(* No entry in file_positions; returned is what the calls have returned.   *)
(* appended_only: the file has only been appended to and no reset was      *)
(* called; fresh: what replaced the file's content, or dropped the entry,  *)
(* since the last call.                                                    *)
NoPosition == [known |-> FALSE, position |-> 0, inode |-> 0, returned |-> <<>>,
               appended_only |-> TRUE, fresh |-> "none"]

InitSide ==
    /\ temp_file = NoCacheFile
    /\ savers = [s \in Savers |-> IdleSaver]
    /\ tail_file = NoTailFile
    /\ tailer = NoPosition

InitLib ==
    /\ InitSide
    /\ input = NoInput
    /\ output = NoOutput
    /\ PRICING = NoTable
    /\ PRICING_INITIALIZED = FALSE
    /\ PRICING_SOURCE = "unknown"
    /\ cache_file = NoCacheFile

InitAppVars(no_watch) ==
    /\ now = 0
    /\ projects_exists \in BOOLEAN
    /\ files = [p \in LogPaths |-> NoFile]
    /\ todos = [n \in TodoNames |-> "absent"]
    /\ creds = "absent"
    /\ agents = <<>>
    /\ sessions = {}
    /\ metrics = SystemMetricsZero
    /\ published = NoPublished
    /\ sort_by = "last_activity"
    /\ filter_status = "none"
    /\ disable_watcher = no_watch
    /\ last_refresh_time = 0
    /\ app_pc = "unmounted"
    /\ app_queue = <<>>
    /\ cur = "none"
    /\ watcher_pc = "off"
    /\ fs_events = <<>>
    /\ scanners = {}
    /\ hist = HistZero

InitApp(no_watch) == InitAppVars(no_watch) /\ InitLib

P1 == <<"projA", "agent-a1.jsonl">>

P2 == <<"projB", "agent-a2.jsonl">>

Sonnet == "claude-sonnet-4-5-20250929"

UserLine(ts, aid, sid) == Obj("user", ts, aid, sid, Msg("", "", UsageAbsent))

EndTurnLine(ts, aid, sid) ==
    Obj("assistant", ts, aid, sid, Msg("end_turn", Sonnet, Usage(100, 50, 10, 5)))

ToolUseLine(ts, aid, sid) ==
    Obj("assistant", ts, aid, sid, Msg("tool_use", Sonnet, Usage(150, 75, 0, 20)))

(* Spec: the application run with --no-watch over a corpus that holds      *)
(* well-formed lines, undecodable lines, a line with an unparseable        *)
(* timestamp, and a second file whose lines carry a naive timestamp or     *)
(* the first file's agent id.  The files change between refresh cycles.    *)
CorpusLines(p) ==
    IF p = P1
    THEN {UserLine(TsAware(0), "a1", "s1"), EndTurnLine(TsAware(0), "a1", "s1"),
          GarbageLine, UserLine(TsBad, "a1", "s1")}
    ELSE {ToolUseLine(TsNaive(TzOffset), "a2", "s2"), UserLine(TsAware(0), "a1", "s2")}

CorpusCreds == {"absent", "nonobject"}

Init ==
    /\ InitApp(TRUE)

BetweenCycles == app_pc \in {"unmounted", "idle"}

Next ==
    \/ on_mount
    \/ timer_fires
    \/ periodic_refresh
    \/ RefreshFinish
    \/ BetweenCycles /\ \E p \in LogPaths : \E line \in CorpusLines(p) : write_log(p, line)
    \/ BetweenCycles /\ \E p \in LogPaths : remove_log(p)
    \/ BetweenCycles /\ remove_projects
    \/ BetweenCycles /\ make_projects
    \/ BetweenCycles /\ \E c \in CorpusCreds : write_creds(c)

Spec == Init /\ [][Next]_vars

----------------------------------------------------------------------------
(* Properties of the scan, checked under Spec.                             *)

(* The last scan returned normally and nothing it read has changed since   *)
(* it began: agents, sessions and metrics are as that scan left them.      *)
ScanIsCurrent == hist.scanned /\ ~hist.scan_raised /\ hist.changed = {}

(* C3: a refresh cycle raises no exception, whatever the log files and the *)
(* side files hold.  (The statement of the claim; the code violates it.)   *)
C3_RefreshNeverRaises == ~hist.raised

(* C4: when the projects directory does not exist, scan_all_logs raises    *)
(* nothing, returns metrics whose counters are all zero, and leaves the    *)
(* agent set and the session set empty, whatever an earlier scan built.    *)
C4_MissingProjectsDir ==
    (hist.scanned /\ hist.changed = {} /\ ~projects_exists)
        => /\ ~hist.scan_raised
           /\ agents = <<>>
           /\ sessions = {}
           /\ metrics.total_agents = 0
           /\ metrics = SystemMetricsZero

(* An earlier cycle published agents, the directory has gone since, and a  *)
(* scan has run over the missing directory.                                *)
C4_Witness ==
    /\ hist.scanned /\ hist.changed = {} /\ ~projects_exists
    /\ app_pc = "scanned"
    /\ published.metrics.total_agents > 0
    /\ agents = <<>>

(* What one log file holds, counted directly from its lines.               *)
Decodes(line) == line.kind \notin {"blank", "garbage"}

CarriesUsage(line) ==
    /\ line.kind = "object"
    /\ line.message.k = "object"
    /\ line.message.usage.k = "object"
    /\ line.timestamp.k # "bad"

FileMessageCount(lines) ==
    Cardinality({i \in DOMAIN lines :
                   Decodes(lines[i]) /\ lines[i].type \in {"user", "assistant"}})

RECURSIVE FileInputTokens(_)
FileInputTokens(lines) ==
    IF lines = <<>> THEN 0
    ELSE (IF CarriesUsage(Head(lines)) THEN Head(lines).message.usage.input_tokens ELSE 0)
         + FileInputTokens(Tail(lines))

RECURSIVE FileOutputTokens(_)
FileOutputTokens(lines) ==
    IF lines = <<>> THEN 0
    ELSE (IF CarriesUsage(Head(lines)) THEN Head(lines).message.usage.output_tokens ELSE 0)
         + FileOutputTokens(Tail(lines))

(* The id the file's first decodable line carries ("" when there is none). *)
FileAgentId(file) ==
    IF \E i \in DOMAIN file.lines : Decodes(file.lines[i])
    THEN file.lines[CHOOSE i \in DOMAIN file.lines :
                      /\ Decodes(file.lines[i])
                      /\ \A j \in 1..(i - 1) : ~Decodes(file.lines[j])].agentId
    ELSE ""

BuiltFrom(agent, p) ==
    /\ files[p].exists
    /\ FileAgentId(files[p]) = agent.agent_id
    /\ agent.project_path = p[1]
    /\ agent.message_count = FileMessageCount(files[p].lines)
    /\ agent.total_input_tokens = FileInputTokens(files[p].lines)
    /\ agent.total_output_tokens = FileOutputTokens(files[p].lines)
    /\ agent = parse_agent_log(p, files[p], todos, now).agent

(* C5: after a scan the agent set holds exactly the agents built from the  *)
(* log files present during that scan: one agent per id, every agent is    *)
(* the agent one present file gives when read on its own, every present    *)
(* file that names an agent has its agent in the set.                      *)
C5_AgentsRebuiltFromScratch ==
    ScanIsCurrent =>
        /\ \A i, j \in DOMAIN agents : agents[i].agent_id = agents[j].agent_id => i = j
        /\ \A i \in DOMAIN agents : \E p \in LogPaths : BuiltFrom(agents[i], p)
        /\ \A p \in LogPaths :
              (projects_exists /\ FileAgentId(files[p]) # "")
                  => \E i \in DOMAIN agents : agents[i].agent_id = FileAgentId(files[p])
        /\ metrics.total_agents = Len(agents)

(* The previous cycle published agent a2, its log file has been removed,   *)
(* and the scan that followed built another agent and no a2.               *)
C5_Witness ==
    /\ ScanIsCurrent
    /\ app_pc = "scanned"
    /\ ~files[P2].exists
    /\ \E i \in DOMAIN published.agents : published.agents[i].agent_id = "a2"
    /\ agents # <<>>
    /\ \A i \in DOMAIN agents : agents[i].agent_id # "a2"

----------------------------------------------------------------------------
(* SpecStatus: the application run with --no-watch while the clock moves   *)
(* over the classification's thresholds.  The first log file's records are *)
(* stamped at clock 0 with an offset; the second file's record carries a   *)
(* naive stamp, 30 s short of one hour after clock 0.  The sessions' todo  *)
(* files come and go.                                                      *)
StatusLines(p) ==
    IF p = P1
    THEN {UserLine(TsAware(0), "a1", "s1"), EndTurnLine(TsAware(0), "a1", "s1")}
    ELSE {ToolUseLine(TsNaive(TzOffset + IdleWindow - ActiveWindow), "a2", "s2")}

StatusTimes == {ActiveWindow, IdleWindow - 1, IdleWindow}

StatusTodoNames == {<<"s1", "">>, <<"s2", "a2">>}

StatusTodoContents == {"absent", "empty_list"}

InitStatus ==
    /\ InitApp(TRUE)
    /\ projects_exists = TRUE

NextStatus ==
    \/ on_mount
    \/ timer_fires
    \/ periodic_refresh
    \/ RefreshFinish
    \/ BetweenCycles /\ \E p \in LogPaths : \E line \in StatusLines(p) : write_log(p, line)
    \/ BetweenCycles /\ \E n \in StatusTodoNames :
                           \E c \in StatusTodoContents : write_todo(n, c)
    \/ BetweenCycles /\ Tick(StatusTimes)

SpecStatus == InitStatus /\ [][NextStatus]_vars

(* An agent's log file, and what the claims say of it, read off the file.  *)
SourceOf(agent) == CHOOSE p \in LogPaths : p[1] = agent.project_path

LastRecord(p) == files[p].lines[Len(files[p].lines)]

(* The UTC instant a timestamp names: a naive one is a local reading.      *)
InstantOf(ts) == IF ts.k = "aware" THEN ts.val ELSE ts.val - TzOffset

(* now - last_activity.                                                    *)
SinceActivity(p) == now - InstantOf(LastRecord(p).timestamp)

LastIsEndTurn(p) ==
    /\ LastRecord(p).type = "assistant"
    /\ LastRecord(p).message.stop_reason = "end_turn"

TodoSideChannel(p) ==
    /\ \E n \in {<<LastRecord(p).sessionId, "">>,
                 <<LastRecord(p).sessionId, LastRecord(p).agentId>>} :
          todos[n] = "empty_list"
    /\ SinceActivity(p) < TodoWindow

WaitingCheck(p) == LastIsEndTurn(p) \/ TodoSideChannel(p)

(* C1: status priority is absolute.  Whenever the waiting check holds for  *)
(* an agent (its last record is an assistant message with stop_reason      *)
(* end_turn, or the todo side channel succeeds) its status is              *)
(* WAITING_FOR_USER whatever the time since its last activity; ACTIVE,     *)
(* IDLE and STOPPED are given only when the waiting check fails.           *)
C1_WaitingHasPriority ==
    ScanIsCurrent =>
        \A i \in DOMAIN agents :
            LET p == SourceOf(agents[i])
            IN /\ WaitingCheck(p) => agents[i].status = "waiting_for_user"
               /\ agents[i].status \in {"active", "idle", "stopped"} => ~WaitingCheck(p)

(* An agent that meets the waiting and the ACTIVE criteria at once (last   *)
(* record an end_turn, less than 30 s old) and is WAITING_FOR_USER.        *)
C1_Witness ==
    /\ ScanIsCurrent
    /\ \E i \in DOMAIN agents :
          /\ LastIsEndTurn(SourceOf(agents[i]))
          /\ SinceActivity(SourceOf(agents[i])) < ActiveWindow
          /\ agents[i].status = "waiting_for_user"

(* C2: when the waiting check fails the status is ACTIVE iff               *)
(* now - last_activity < 30 s, IDLE iff 30 s <= now - last_activity < 1 h, *)
(* STOPPED iff now - last_activity >= 1 h.                                 *)
C2_TimeThresholds ==
    ScanIsCurrent =>
        \A i \in DOMAIN agents :
            LET p == SourceOf(agents[i])
                since == SinceActivity(p)
            IN ~WaitingCheck(p) =>
                 /\ agents[i].status = "active" <=> since < ActiveWindow
                 /\ agents[i].status = "idle" <=> (ActiveWindow <= since /\ since < IdleWindow)
                 /\ agents[i].status = "stopped" <=> since >= IdleWindow

(* Both boundaries in one scan: an agent exactly 30 s old that is IDLE and *)
(* an agent exactly one hour old that is STOPPED.                          *)
C2_Witness ==
    /\ ScanIsCurrent
    /\ \E i, j \in DOMAIN agents :
          /\ ~WaitingCheck(SourceOf(agents[i]))
          /\ SinceActivity(SourceOf(agents[i])) = ActiveWindow
          /\ agents[i].status = "idle"
          /\ ~WaitingCheck(SourceOf(agents[j]))
          /\ SinceActivity(SourceOf(agents[j])) = IdleWindow
          /\ agents[j].status = "stopped"

StatusRank(status) ==
    CASE status = "active" -> 1
      [] status = "idle" -> 2
      [] status = "stopped" -> 3
      [] OTHER -> 0

(* The agent's log file and its session's todo files are as the previous   *)
(* scan read them.                                                         *)
SourcesUnchanged(agent) ==
    /\ hist.scanned /\ ~hist.scan_raised
    /\ SourceOf(agent)[2] \notin hist.changed
    /\ TodoTag(agent.session_id) \notin hist.changed

(* C10: from one scan to the next, for an agent whose log file and todo    *)
(* files did not change, the status does not move backward along           *)
(* ACTIVE -> IDLE -> STOPPED, and an agent that was not WAITING_FOR_USER   *)
(* is not WAITING_FOR_USER.                                                *)
C10_StatusStep ==
    \A i \in DOMAIN agents : \A j \in DOMAIN agents' :
        ( /\ agents[i].agent_id = agents'[j].agent_id
          /\ agents[i].project_path = agents'[j].project_path
          /\ SourcesUnchanged(agents[i]) )
        => /\ ( /\ agents[i].status # "waiting_for_user"
                /\ agents'[j].status # "waiting_for_user" )
              => StatusRank(agents'[j].status) >= StatusRank(agents[i].status)
           /\ agents[i].status # "waiting_for_user"
              => agents'[j].status # "waiting_for_user"

C10_StatusMonotone == [][C10_StatusStep]_vars

(* Only the clock changed between two scans, the first of which published  *)
(* agent a1 as ACTIVE, and the second found it IDLE or STOPPED.            *)
C10_Witness ==
    /\ app_pc = "scanned"
    /\ hist.quiet /\ ~hist.scan_raised
    /\ \E i \in DOMAIN published.agents : \E j \in DOMAIN agents :
          /\ published.agents[i].agent_id = agents[j].agent_id
          /\ published.agents[i].status = "active"
          /\ agents[j].status \in {"idle", "stopped"}

----------------------------------------------------------------------------
(* SpecWatch: the application run with the notifier, the refresh key      *)
(* pressed and the timer ticking, while well-formed records are written to *)
(* one log file and the clock moves across the debounce window.  Writes,   *)
(* events and the clock do not wait for a scan to finish.                  *)
WatchLines(p) ==
    IF p = P1 THEN {UserLine(TsAware(0), "a1", "s1")}
    ELSE {UserLine(TsAware(0), "a2", "s2")}

WatchTimes == {DebounceWindow - 1, DebounceWindow}

WatchKeys == {"key_r"}

InitWatch ==
    /\ InitApp(FALSE)

NextWatch ==
    \/ on_mount
    \/ timer_fires
    \/ periodic_refresh
    \/ \E k \in WatchKeys : key_press(k)
    \/ action_refresh
    \/ run_thread_callback
    \/ RefreshFinish
    \/ on_modified_directory
    \/ on_log_file_changed
    \/ \E line \in WatchLines(P1) : write_log(P1, line)
    \/ Tick(WatchTimes)

SpecWatch == InitWatch /\ [][NextWatch]_vars

(* FairSpecWatch: the same run with no key pressed.  The application's     *)
(* event loop runs every callback that waits, the timer keeps coming due,  *)
(* the notifier thread handles every event the observer holds, and the     *)
(* clock moves on; nothing obliges the files to change.                    *)
NextAuto ==
    \/ on_mount
    \/ timer_fires
    \/ periodic_refresh
    \/ run_thread_callback
    \/ RefreshFinish
    \/ on_modified_directory
    \/ on_log_file_changed
    \/ \E line \in WatchLines(P1) : write_log(P1, line)
    \/ Tick(WatchTimes)

(* The steps of the application thread, told by what they do to its       *)
(* position and to the event loop's queue: on_mount leaves "unmounted",    *)
(* the handler of a callback cb takes that callback off the queue.  A step *)
(* of NextAuto is a step of on_mount iff it is a Mounts step and a step of *)
(* the handler of cb iff it is an EventLoopRuns(cb) step, and each is      *)
(* enabled exactly when the handler is: whatever the files hold, the       *)
(* refresh it starts has an outcome.                                       *)
Mounts ==
    /\ app_pc = "unmounted"
    /\ app_pc' \in {"scanned", "crashed"}

EventLoopRuns(cb) ==
    /\ app_pc = "idle"
    /\ \E i \in DOMAIN app_queue :
          /\ app_queue[i].cb = cb
          /\ app_queue' = RemoveAt(app_queue, i)

FairSpecWatch ==
    /\ InitWatch
    /\ [][NextAuto]_vars
    /\ WF_app_pc(Mounts)
    /\ WF_vars(timer_fires)
    /\ WF_app_queue(EventLoopRuns("timer"))
    /\ WF_app_queue(EventLoopRuns("watch"))
    /\ WF_vars(RefreshFinish)
    /\ WF_vars(on_modified_directory)
    /\ WF_vars(on_log_file_changed)
    /\ WF_vars(Tick(WatchTimes))

----------------------------------------------------------------------------
(* Properties of the refresh scheduling, checked under SpecWatch and       *)
(* FairSpecWatch.                                                          *)

PendingWatch == {i \in DOMAIN app_queue : app_queue[i].cb = "watch"}

(* C6 (as the code has it): any two notifier events that each trigger a    *)
(* rescan are handled at least 100 ms apart; an event handled less than    *)
(* 100 ms after the last accepted one leaves nothing behind (the rescans   *)
(* owed are exactly the callbacks handed to the event loop, at most one),  *)
(* and last_refresh_time is the reading of the last accepted event.        *)
C6_Debounce ==
    /\ hist.prev_accept >= 0 => hist.last_accept - hist.prev_accept >= DebounceWindow
    /\ last_refresh_time = IF hist.last_accept >= 0 THEN hist.last_accept ELSE 0
    /\ hist.owed = Cardinality(PendingWatch)
    /\ hist.owed \in {0, 1}

(* An event has been accepted and its rescan started, and the event        *)
(* handled next, inside the window, was dropped and left nothing waiting.  *)
C6_Witness ==
    /\ hist.last_handled = "dropped"
    /\ hist.last_accept >= 0
    /\ time_time(now) - hist.last_accept < DebounceWindow
    /\ hist.owed = 0
    /\ PendingWatch = {}

(* C6 (as the claim has it): a notifier event raised less than 100 ms      *)
(* after the last accepted event triggers no rescan, neither then nor      *)
(* later: every accepted event was raised at least 100 ms after the        *)
(* accepted event before it was handled.                                   *)
C6_AcceptedArriveApart ==
    hist.prev_accept >= 0 => hist.last_raised - hist.prev_accept >= DebounceWindow

ScanStateStep ==
    (agents' # agents \/ sessions' # sessions \/ metrics' # metrics)
        => (scanners = {} /\ scanners' \subseteq {"app"})

(* C7: refresh_data runs on the application thread only, a scan is in      *)
(* progress exactly while the application thread is inside refresh_data,   *)
(* and the agent set, the sessions and the metrics change only in a step   *)
(* that finds no scan in progress.                                         *)
C7_ScansOnAppThread ==
    /\ [](scanners \subseteq {"app"})
    /\ []((scanners = {"app"}) <=> (app_pc = "scanned"))
    /\ [][ScanStateStep]_vars

(* A scan is in progress while a notifier callback (its thread blocked), a *)
(* timer tick and a key action all wait on the event loop.                 *)
C7_Witness ==
    /\ app_pc = "scanned"
    /\ scanners = {"app"}
    /\ watcher_pc = "blocked"
    /\ PendingWatch # {}
    /\ \E i \in DOMAIN app_queue : app_queue[i].cb = "timer"
    /\ \E i \in DOMAIN app_queue : app_queue[i].cb = "key_r"

(* C8 (as the claim has it): a trigger that arrives while a scan is in     *)
(* progress is discarded: no scan is ever started by such a trigger.       *)
C8_LateTriggerDiscarded == ~hist.scan_of_late

InFlightStep ==
    app_pc = "scanned"
        => /\ agents' = agents /\ sessions' = sessions /\ metrics' = metrics
           /\ Len(app_queue') >= Len(app_queue)
           /\ SubSeq(app_queue', 1, Len(app_queue)) = app_queue

(* C8 (as the code has it): while a scan is in progress no step starts     *)
(* another or touches what it built, and no callback waiting on the event  *)
(* loop is removed -- a trigger that arrives during the scan waits and is  *)
(* still there when the scan has finished.                                 *)
C8_InFlightScanUninterrupted == [][InFlightStep]_vars

(* A scan in progress that was started by a callback which arrived while   *)
(* an earlier scan was in progress.                                        *)
C8_Witness ==
    /\ hist.scan_of_late
    /\ app_pc = "scanned"

(* C9: with the notifier enabled and no manual refresh, every write to the *)
(* log file is eventually followed by a scan that starts after it.  (The   *)
(* statement of the claim; the code violates it.)                          *)
C9_EventuallyScanned ==
    (P1[2] \in hist.changed) ~> (P1[2] \notin hist.changed)

----------------------------------------------------------------------------
(* SpecUsage: the application run with --no-watch from a Wednesday, 10:00  *)
(* UTC, into the Monday after, over records stamped around the two         *)
(* boundaries of calculate_usage_metrics: the Monday 00:00 UTC before the  *)
(* start, and the session start (the naive local reading at clock 0).      *)
WeekMs == 7 * DayMs

(* The first Monday 00:00 UTC after clock 0.                               *)
NextMonday0 == WeekMs - ClockPhase

UsageStamps == {TsAware(0 - ClockPhase - 1), TsAware(0 - ClockPhase),
                TsNaive(TzOffset - 1), TsAware(TzOffset), TsMissing}

UsageLines(p) ==
    IF p = P1
    THEN {EndTurnLine(ts, "a1", "s1") : ts \in UsageStamps}
             \cup {UserLine(TsAware(TzOffset), "a1", "s1")}
    ELSE {ToolUseLine(ts, "a2", "s2") : ts \in {TsAware(0 - ClockPhase - 1),
                                                 TsNaive(TzOffset)}}

UsageTimes == {NextMonday0 - 1, NextMonday0, NextMonday0 + 13 * 3600 * 1000}

InitUsage ==
    /\ InitApp(TRUE)
    /\ projects_exists = TRUE

NextUsage ==
    \/ on_mount
    \/ timer_fires
    \/ periodic_refresh
    \/ RefreshFinish
    \/ BetweenCycles /\ \E p \in LogPaths : \E line \in UsageLines(p) : write_log(p, line)
    \/ BetweenCycles /\ Tick(UsageTimes)

SpecUsage == InitUsage /\ [][NextUsage]_vars

(* The last refresh cycle ran to its end and nothing it read has changed   *)
(* since: published is what that cycle computed from the files and clock   *)
(* as they are.                                                            *)
RefreshIsCurrent == app_pc = "idle" /\ ScanIsCurrent /\ ~hist.raised

(* A record with a usage block, and the instant its TokenUsage carries,    *)
(* normalized to UTC: a naive reading is taken as UTC, and a record        *)
(* without a timestamp gets the naive local reading at the call.           *)
HasUsageBlock(line) ==
    /\ line.kind = "object"
    /\ line.message.k = "object"
    /\ line.message.usage.k = "object"

UtcNormalized(ts) == IF ts.k = "missing" THEN now + TzOffset ELSE ts.val

RecordTokens(line) ==
    line.message.usage.input_tokens + line.message.usage.output_tokens
    + line.message.usage.cache_creation_input_tokens
    + line.message.usage.cache_read_input_tokens

(* The session start, normalized the same way, and the most recent Monday  *)
(* 00:00 UTC at or before now (clock -ClockPhase is a Monday, 00:00 UTC).  *)
SessionStartUtc == start_time.val

IsMondayMidnight(t) == (t + ClockPhase) % WeekMs = 0

TodayIsMonday == (now + ClockPhase) % WeekMs < DayMs

WeekStartUtc == now - ((now + ClockPhase) % WeekMs)

RECURSIVE TokensSince(_, _)
TokensSince(lines, from) ==
    IF lines = <<>> THEN 0
    ELSE (IF HasUsageBlock(Head(lines)) /\ UtcNormalized(Head(lines).timestamp) >= from
          THEN RecordTokens(Head(lines)) ELSE 0)
         + TokensSince(Tail(lines), from)

RequestsSince(lines, from) ==
    Cardinality({i \in DOMAIN lines :
                   HasUsageBlock(lines[i]) /\ UtcNormalized(lines[i].timestamp) >= from})

(* C11: a usage-bearing record adds its total_tokens and one request to    *)
(* the session counters iff its UTC-normalized timestamp is at or after    *)
(* the UTC-normalized session start, and to the weekly counters iff it is  *)
(* at or after the most recent Monday 00:00 UTC at or before now; the two  *)
(* tests are independent, and records without a usage block count in       *)
(* neither.                                                                *)
C11_UsageWindows ==
    RefreshIsCurrent =>
        LET u == published.metrics.usage_metrics
            a == files[P1].lines
            b == files[P2].lines
        IN /\ u.session_total_tokens
                  = TokensSince(a, SessionStartUtc) + TokensSince(b, SessionStartUtc)
           /\ u.session_request_count
                  = RequestsSince(a, SessionStartUtc) + RequestsSince(b, SessionStartUtc)
           /\ u.weekly_total_tokens
                  = TokensSince(a, WeekStartUtc) + TokensSince(b, WeekStartUtc)
           /\ u.weekly_request_count
                  = RequestsSince(a, WeekStartUtc) + RequestsSince(b, WeekStartUtc)

(* After the week has turned: of two usage-bearing records, one counts in  *)
(* the session window alone and the other in neither window.               *)
C11_Witness ==
    /\ RefreshIsCurrent
    /\ now >= NextMonday0
    /\ RequestsSince(files[P1].lines, 0 - WeekMs) + RequestsSince(files[P2].lines, 0 - WeekMs) = 2
    /\ published.metrics.usage_metrics.session_request_count = 1
    /\ published.metrics.usage_metrics.weekly_request_count = 0
    /\ published.metrics.usage_metrics.session_total_tokens > 0

(* C12: calculate_next_monday_utc gives a Monday 00:00 UTC strictly later  *)
(* than now and at most 7 days later; called on a Monday it gives the      *)
(* Monday exactly 7 days after today's 00:00.                              *)
C12_NextMonday ==
    RefreshIsCurrent =>
        LET n == published.metrics.usage_metrics.next_reset_time
        IN /\ n.aware
           /\ IsMondayMidnight(n.val)
           /\ n.val > now
           /\ n.val <= now + WeekMs
           /\ TodayIsMonday => n.val = now - ((now + ClockPhase) % DayMs) + WeekMs

(* Called on a Monday at 13:00: the result is the Monday a week ahead.     *)
C12_Witness ==
    /\ RefreshIsCurrent
    /\ now = NextMonday0 + 13 * 3600 * 1000
    /\ published.metrics.usage_metrics.next_reset_time.val = NextMonday0 + WeekMs

----------------------------------------------------------------------------
(* SpecLibrary: the parser's and the aggregator's functions called on      *)
(* their own, once each, on an argument drawn at the start: a sequence of  *)
(* at most MaxEntries lines, or an agent set of at most three agents.      *)
MaxEntries == 3

SeqsUpTo(S, n) == UNION {[1..k -> S] : k \in 0..n}

LibraryLines ==
    {BlankLine, GarbageLine, BadBytesLine, NonObjectLine,
     UserLine(TsAware(0), "a1", "s1"),
     EndTurnLine(TsAware(0), "a1", "s1"),
     ToolUseLine(TsNaive(TzOffset), "a1", "s1"),
     Obj("assistant", TsBad, "a1", "s1", Msg("end_turn", Sonnet, Usage(7, 3, 0, 0))),
     Obj("assistant", TsMissing, "a1", "s1", MsgNull),
     Obj("user", TsAware(0), "a1", "s1", Msg("end_turn", "", UsageAbsent)),
     Obj("summary", TsMissing, "", "", MsgAbsent)}

(* Agents as the scan leaves them in DataAggregator.agents: one per id.    *)
LibraryAgent(id, last_activity, input_tokens, cache_read_tokens) ==
    [NoAgent EXCEPT !.agent_id = id, !.slug = id, !.session_id = "s1",
                    !.last_activity = last_activity, !.created_at = last_activity,
                    !.total_input_tokens = input_tokens, !.total_output_tokens = 50,
                    !.total_cache_read_tokens = cache_read_tokens, !.model = Sonnet]

LibraryAgents ==
    {LibraryAgent(id, v[1], v[2], v[3]) :
        id \in {"a1", "a2", "a3"},
        v \in {<<AwareDt(0), 100, 0>>, <<AwareDt(0), 200, 0>>, <<AwareDt(1000), 100, 0>>,
               <<AwareDt(1000), 100, 100000>>, <<AwareDt(0), 100, 100000>>,
               <<NaiveDt(0), 100, 0>>}}

LibraryAgentSets ==
    {a \in SeqsUpTo(LibraryAgents, 3) :
        \A i, j \in DOMAIN a : a[i].agent_id = a[j].agent_id => i = j}

(* Arguments of _check_waiting_for_user: the log's records, the ids the    *)
(* first record gave, the two candidate todo files and the clock.          *)
WaitingLastRecords ==
    {UserLine(TsAware(0), "a1", "s1"), ToolUseLine(TsNaive(TzOffset), "a1", "s1"),
     EndTurnLine(TsAware(0), "a1", "s1"), UserLine(TsBad, "a1", "s1"),
     UserLine(TsMissing, "a1", "s1"), Obj("assistant", TsAware(0), "a1", "s1", MsgAbsent)}

TodosOf(by_session, by_agent) ==
    [n \in TodoNames |-> IF n = <<"s1", "">> THEN by_session
                         ELSE IF n = <<"s1", "a1">> THEN by_agent
                         ELSE "absent"]

WaitingInputs ==
    {[k |-> "waiting", entries |-> <<UserLine(TsAware(0), "a1", "s1"), last>>,
      agent_id |-> "a1", session_id |-> sid, todos |-> TodosOf(c[1], c[2]), t |-> t] :
        last \in WaitingLastRecords, sid \in {"", "s1"}, c \in TodoContents \X TodoContents,
        t \in {TodoWindow - 1, TodoWindow}}

LibraryInputs ==
    {[k |-> "lines", lines |-> l] : l \in SeqsUpTo(LibraryLines, MaxEntries)}
        \cup {[k |-> "agents", agents |-> a] : a \in LibraryAgentSets}
        \cup WaitingInputs

InitLibrary ==
    /\ InitAppVars(TRUE)
    /\ projects_exists = TRUE
    /\ input \in LibraryInputs
    /\ output = NoOutput
    /\ PRICING = NoTable
    /\ PRICING_INITIALIZED = FALSE
    /\ PRICING_SOURCE = "unknown"
    /\ cache_file = NoCacheFile
    /\ InitSide

(* The call op returns: output records the call, its argument and result.  *)
Returns(call) ==
    /\ output = NoOutput
    /\ output' = call
    /\ UNCHANGED <<now, app_vars, input, PRICING, PRICING_INITIALIZED, PRICING_SOURCE,
                   cache_file, side_vars>>

(* What parse_log_file hands on is what the other parser functions get.    *)
IsEntries(lines) == \A i \in DOMAIN lines : lines[i].kind \in {"object", "nonobject"}

call_parse_log_file ==
    /\ input.k = "lines"
    /\ \E file \in {[exists |-> TRUE, readable |-> TRUE, lines |-> input.lines],
                     [exists |-> TRUE, readable |-> FALSE, lines |-> input.lines],
                     NoFile} :
          Returns([op |-> "parse_log_file", file |-> file, ret |-> parse_log_file(file)])

call_is_waiting_for_user ==
    /\ input.k = "lines"
    /\ IsEntries(input.lines)
    /\ Returns([op |-> "is_waiting_for_user", entries |-> input.lines,
                ret |-> is_waiting_for_user(input.lines)])

(* "if not entries: return {}" is the result with empty = TRUE.            *)
call_get_agent_info_from_log ==
    /\ input.k = "lines"
    /\ IsEntries(input.lines)
    /\ Returns([op |-> "get_agent_info_from_log", entries |-> input.lines,
                empty |-> input.lines = <<>>,
                ret |-> IF input.lines = <<>> THEN InfoZero
                        ELSE get_agent_info_from_log(input.lines, now)])

call_get_all_agents_sorted ==
    /\ input.k = "agents"
    /\ \E criterion \in {"last_activity", "cost", "tokens", "agent_id", "name"} :
          Returns([op |-> "get_all_agents_sorted", agents |-> input.agents,
                   criterion |-> criterion,
                   ret |-> get_all_agents_sorted(input.agents, criterion)])

call_check_waiting_for_user ==
    /\ input.k = "waiting"
    /\ Returns([op |-> "_check_waiting_for_user", arg |-> input,
                ret |-> check_waiting_for_user(input.entries, input.agent_id,
                                               input.session_id, input.todos, input.t)])

NextLibrary ==
    \/ call_check_waiting_for_user
    \/ call_parse_log_file
    \/ call_is_waiting_for_user
    \/ call_get_agent_info_from_log
    \/ call_get_all_agents_sorted

SpecLibrary == InitLibrary /\ [][NextLibrary]_vars

----------------------------------------------------------------------------
(* The parser's functions against their descriptions.                      *)

DecodesAsJson(line) == line.kind \in {"object", "nonobject"}

(* C13: parse_log_file returns exactly the lines that decode as JSON, in   *)
(* file order, whatever blank or undecodable lines stand between them, and *)
(* the empty list, without raising, for a missing or an unreadable file.   *)
C13_ParseLogFile ==
    output.op = "parse_log_file" =>
        /\ ~output.ret.raised
        /\ output.ret.entries =
               IF output.file.exists /\ output.file.readable
               THEN SelectSeq(output.file.lines, DecodesAsJson)
               ELSE <<>>

EndsTurn(record) ==
    /\ record.kind = "object"
    /\ record.type = "assistant"
    /\ record.message.k = "object"
    /\ record.message.stop_reason = "end_turn"

(* C14: is_waiting_for_user returns true exactly when the sequence is      *)
(* non-empty and its last record is an assistant record whose message's    *)
(* stop_reason is "end_turn"; in every other case it returns false.        *)
C14_IsWaitingForUser ==
    output.op = "is_waiting_for_user" =>
        /\ ~output.ret.raised
        /\ output.ret.val = (output.entries # <<>> /\ EndsTurn(output.entries[Len(output.entries)]))

RECURSIVE SumOfCounter(_, _)
SumOfCounter(entries, counter) ==
    IF entries = <<>> THEN 0
    ELSE (IF HasUsageBlock(Head(entries)) THEN Head(entries).message.usage[counter] ELSE 0)
         + SumOfCounter(Tail(entries), counter)

CountsAsMessage(record) == record.kind = "object" /\ record.type \in {"user", "assistant"}

(* C15: get_agent_info_from_log returns the four token totals as the sums  *)
(* of the counters over every record with a usage block, and message_count *)
(* as the number of records of type "user" or "assistant".                 *)
C15_AgentInfoTotals ==
    (output.op = "get_agent_info_from_log" /\ ~output.empty) =>
        /\ ~output.ret.raised
        /\ output.ret.total_input_tokens = SumOfCounter(output.entries, "input_tokens")
        /\ output.ret.total_output_tokens = SumOfCounter(output.entries, "output_tokens")
        /\ output.ret.total_cache_creation_tokens
               = SumOfCounter(output.entries, "cache_creation_input_tokens")
        /\ output.ret.total_cache_read_tokens
               = SumOfCounter(output.entries, "cache_read_input_tokens")
        /\ output.ret.message_count = Len(SelectSeq(output.entries, CountsAsMessage))

(* Where agent a has to stand relative to agent b under the criterion.     *)
NotAfter(a, b, criterion) ==
    CASE criterion = "last_activity" -> a.last_activity.val >= b.last_activity.val
      [] criterion = "cost" -> total_cost(a) >= total_cost(b)
      [] criterion = "tokens" -> a.total_input_tokens + a.total_output_tokens
                                    >= b.total_input_tokens + b.total_output_tokens
      [] criterion = "agent_id" -> IdRank(a.agent_id) <= IdRank(b.agent_id)
      [] OTHER -> TRUE

PositionIn(ags, id) == CHOOSE i \in DOMAIN ags : ags[i].agent_id = id

(* C17: get_all_agents_sorted returns every agent of the set exactly once, *)
(* in the order of the criterion, agents with equal keys in the order the  *)
(* set holds them, and the set's own order for an unrecognized criterion.  *)
C17_SortedAgents ==
    output.op = "get_all_agents_sorted" =>
        /\ ~output.ret.raised
        /\ Len(output.ret.agents) = Len(output.agents)
        /\ \A i \in DOMAIN output.agents :
               \E j \in DOMAIN output.ret.agents : output.ret.agents[j] = output.agents[i]
        /\ \A i, j \in DOMAIN output.ret.agents :
               i < j =>
                   /\ NotAfter(output.ret.agents[i], output.ret.agents[j], output.criterion)
                   /\ NotAfter(output.ret.agents[j], output.ret.agents[i], output.criterion)
                       => PositionIn(output.agents, output.ret.agents[i].agent_id)
                            < PositionIn(output.agents, output.ret.agents[j].agent_id)

----------------------------------------------------------------------------
(* SpecNoAgentId: the application run with --no-watch over log files whose *)
(* records may lack the agentId: the first file's records are one without  *)
(* and one with an agentId, in either order, and so are the second's.      *)
NoAgentIdLines(p) ==
    IF p = P1
    THEN {UserLine(TsAware(0), "", "s1"), EndTurnLine(TsAware(0), "a1", "s1")}
    ELSE {UserLine(TsAware(0), "", "s2"), ToolUseLine(TsAware(0), "a2", "s2")}

InitNoAgentId == InitApp(TRUE) /\ projects_exists = TRUE

NextNoAgentId ==
    \/ on_mount
    \/ timer_fires
    \/ periodic_refresh
    \/ RefreshFinish
    \/ BetweenCycles /\ \E p \in LogPaths : \E line \in NoAgentIdLines(p) : write_log(p, line)
    \/ BetweenCycles /\ \E p \in LogPaths : remove_log(p)

SpecNoAgentId == InitNoAgentId /\ [][NextNoAgentId]_vars

(* The file decodes to at least one record and the first carries no id.    *)
FirstRecordHasNoId(file) ==
    /\ file.exists
    /\ \E i \in DOMAIN file.lines : Decodes(file.lines[i])
    /\ FileAgentId(file) = ""

(* What the scan leaves when the file at p is not there.                   *)
LeftWithout(p, order) ==
    scan_all_logs(<<>>, {}, order, projects_exists, [files EXCEPT ![p] = NoFile], todos, now)

(* C16: after a scan, a log file whose first decoded record carries no     *)
(* agentId has no agent in the agent set, whatever its later records       *)
(* carry, and the agent set, the session set and the metrics are the ones  *)
(* the scan leaves without that file.                                      *)
C16_NoAgentWithoutFirstId ==
    ScanIsCurrent =>
        \A p \in LogPaths :
            FirstRecordHasNoId(files[p]) =>
                /\ \A i \in DOMAIN agents : agents[i].project_path # p[1]
                /\ \E order \in ScanOrders :
                      /\ agents = LeftWithout(p, order).agents
                      /\ sessions = LeftWithout(p, order).sessions
                      /\ metrics = LeftWithout(p, order).metrics

(* The scanned file's first record has no agentId and its second names a1. *)
C16_Witness ==
    /\ ScanIsCurrent
    /\ app_pc = "idle"
    /\ files[P1].lines = <<UserLine(TsAware(0), "", "s1"), EndTurnLine(TsAware(0), "a1", "s1")>>
    /\ agents = <<>>
    /\ metrics.total_agents = 0

----------------------------------------------------------------------------
(* The pricing cache (utils/pricing_cache.py).  A Decimal is its           *)
(* coefficient's digits and its exponent; a text is a sequence of          *)
(* characters.  Rates are not negative.                                    *)

DigitChars == <<"0", "1", "2", "3", "4", "5", "6", "7", "8", "9">>

IsDigitChar(c) == \E i \in DOMAIN DigitChars : DigitChars[i] = c

DigitOf(c) == (CHOOSE i \in DOMAIN DigitChars : DigitChars[i] = c) - 1

CharsOf(digits) == [i \in DOMAIN digits |-> DigitChars[digits[i] + 1]]

Zeros(n) == [i \in 1..n |-> "0"]

RECURSIVE NatStr(_)
NatStr(n) == IF n < 10 THEN <<DigitChars[n + 1]>> ELSE NatStr(n \div 10) \o <<DigitChars[(n % 10) + 1]>>

RECURSIVE NatOf(_)
NatOf(chars) ==
    IF chars = <<>> THEN 0
    ELSE 10 * NatOf(SubSeq(chars, 1, Len(chars) - 1)) + DigitOf(chars[Len(chars)])

RECURSIVE StripLeadingZeros(_)
StripLeadingZeros(digits) ==
    IF Len(digits) > 1 /\ digits[1] = 0 THEN StripLeadingZeros(Tail(digits)) ELSE digits

Dec(digits, exp) == [digits |-> digits, exp |-> exp]

(* str(Decimal): plain notation while the exponent is not positive and the *)
(* first digit stands at most six places behind the point, scientific      *)
(* notation otherwise (Decimal.__str__).                                   *)
DecimalStr(d) ==
    LET n == Len(d.digits)
        leftdigits == d.exp + n
        dotplace == IF d.exp <= 0 /\ leftdigits > -6 THEN leftdigits ELSE 1
        intpart == IF dotplace <= 0 THEN <<"0">>
                   ELSE IF dotplace >= n THEN CharsOf(d.digits) \o Zeros(dotplace - n)
                   ELSE CharsOf(SubSeq(d.digits, 1, dotplace))
        fracpart == IF dotplace <= 0 THEN <<".">> \o Zeros(0 - dotplace) \o CharsOf(d.digits)
                    ELSE IF dotplace >= n THEN <<>>
                    ELSE <<".">> \o CharsOf(SubSeq(d.digits, dotplace + 1, n))
        e == leftdigits - dotplace
        exppart == IF e = 0 THEN <<>>
                   ELSE <<"E", IF e < 0 THEN "-" ELSE "+">> \o NatStr(IF e < 0 THEN 0 - e ELSE e)
    IN intpart \o fracpart \o exppart

FirstIndex(text, cs) ==
    IF \E i \in DOMAIN text : text[i] \in cs
    THEN CHOOSE i \in DOMAIN text : text[i] \in cs /\ \A j \in 1..(i - 1) : text[j] \notin cs
    ELSE Len(text) + 1

AllDigits(text) == \A i \in DOMAIN text : IsDigitChar(text[i])

(* Decimal(text): digits, an optional point, an optional exponent; any     *)
(* other text raises decimal.InvalidOperation (ok = FALSE).                *)
DecimalOf(text) ==
    LET epos == FirstIndex(text, {"E", "e"})
        mantissa == SubSeq(text, 1, epos - 1)
        exptext == SubSeq(text, epos + 1, Len(text))
        signed == exptext # <<>> /\ exptext[1] \in {"+", "-"}
        expdigits == IF signed THEN Tail(exptext) ELSE exptext
        dpos == FirstIndex(mantissa, {"."})
        intpart == SubSeq(mantissa, 1, dpos - 1)
        fracpart == SubSeq(mantissa, dpos + 1, Len(mantissa))
        expval == IF epos > Len(text) THEN 0
                  ELSE IF signed /\ exptext[1] = "-" THEN 0 - NatOf(expdigits)
                  ELSE NatOf(expdigits)
    IN IF /\ AllDigits(intpart) /\ AllDigits(fracpart) /\ intpart \o fracpart # <<>>
          /\ epos <= Len(text) => (expdigits # <<>> /\ AllDigits(expdigits))
       THEN [ok |-> TRUE,
             d |-> Dec(StripLeadingZeros([i \in DOMAIN (intpart \o fracpart) |->
                                              DigitOf((intpart \o fracpart)[i])]),
                       expval - Len(fracpart))]
       ELSE [ok |-> FALSE, d |-> Dec(<<0>>, 0)]

RateTypes == {"input", "output", "cache_creation", "cache_read"}

CACHE_TTL_HOURS == 24

(* "Z" for "+00:00" in the isoformat text, and back before fromisoformat.  *)
StampOf(t) == [val |-> t, offset |-> "Z"]

InstantOfStamp(stamp) == [aware |-> TRUE, val |-> stamp.val]

NoneValue == [k |-> "none"]

TableValue(table) == [k |-> "table", table |-> table]

(* The rates of every model parse.                                         *)
RatesParse(pricing_json) ==
    \A model \in DOMAIN pricing_json : \A r \in RateTypes : DecimalOf(pricing_json[model][r]).ok

(* save_to_cache writing each model's two cache rates under each other's   *)
(* key.                                                                    *)
save_to_cache_swapped_rates(pricing_data, file, t, io_ok) ==
    IF ~io_ok THEN [ret |-> FALSE, file |-> file]
    ELSE [ret |-> TRUE,
          file |-> [k |-> "json", version |-> "1.0", fetched_at |-> StampOf(t),
                    ttl_hours |-> CACHE_TTL_HOURS,
                    pricing |-> [model \in DOMAIN pricing_data |->
                                   [input |-> DecimalStr(pricing_data[model].input),
                                    output |-> DecimalStr(pricing_data[model].output),
                                    cache_creation |-> DecimalStr(pricing_data[model].cache_read),
                                    cache_read |-> DecimalStr(pricing_data[model].cache_creation)]]]]

(* save_to_cache: the file is replaced as a whole, or, when creating the   *)
(* directory, writing or renaming fails (io_ok = FALSE), left as it was.   *)
save_to_cache(pricing_data, file, t, io_ok) ==
    IF ~io_ok THEN [ret |-> FALSE, file |-> file]
    ELSE [ret |-> TRUE,
          file |-> [k |-> "json", version |-> "1.0", fetched_at |-> StampOf(t),
                    ttl_hours |-> CACHE_TTL_HOURS,
                    pricing |-> [model \in DOMAIN pricing_data |->
                                   [r \in RateTypes |-> DecimalStr(pricing_data[model][r])]]]]

(* is_cache_valid: whether the file exists and has not expired.  A        *)
(* document that is no object ("nonobject") has no .get: AttributeError,   *)
(* which the function's except clause does not name.  The "pricing" and    *)
(* "version" fields are not looked at.                                     *)
is_cache_valid(file, t) ==
    IF file.k \in {"missing", "garbage", "partial"} THEN [raised |-> FALSE, val |-> FALSE]
    ELSE IF file.k = "nonobject" THEN [raised |-> TRUE, val |-> FALSE]
    ELSE [raised |-> FALSE,
          val |-> t < InstantOfStamp(file.fetched_at).val + file.ttl_hours * 3600 * 1000]

(* load_from_cache: None for a missing, corrupted or expired file, for a   *)
(* rate that is no number (InvalidOperation, caught as Exception) and for  *)
(* a file that gives no model.                                             *)
load_from_cache(file, t) ==
    IF file.k # "json" THEN NoneValue
    ELSE IF t >= InstantOfStamp(file.fetched_at).val + file.ttl_hours * 3600 * 1000
    THEN NoneValue
    ELSE IF ~RatesParse(file.pricing) THEN NoneValue
    ELSE IF DOMAIN file.pricing = {} THEN NoneValue
    ELSE TableValue([model \in DOMAIN file.pricing |->
                       [r \in RateTypes |-> DecimalOf(file.pricing[model][r]).d]])

----------------------------------------------------------------------------
(* Pricing initialization (utils/pricing.py).                              *)

(* dict.update                                                             *)
Updated(table, new) ==
    [model \in DOMAIN table \cup DOMAIN new |->
        IF model \in DOMAIN new THEN new[model] ELSE table[model]]

PricingState == [PRICING |-> PRICING, INITIALIZED |-> PRICING_INITIALIZED,
                 SOURCE |-> PRICING_SOURCE, cache_file |-> cache_file]

(* The three tiers of initialize_pricing, each from the state st the        *)
(* earlier ones left.  io lists the sources touched, in order.             *)
FromBundled(bundled, st, io) ==
    [ret |-> "bundled", io |-> Append(io, "bundled"),
     st |-> [st EXCEPT !.PRICING = Updated(@, bundled), !.SOURCE = "bundled",
                       !.INITIALIZED = TRUE]]

FromCache(cached, bundled, st, io) ==
    IF cached.k = "table"
    THEN [ret |-> "cached", io |-> Append(io, "load"),
          st |-> [st EXCEPT !.PRICING = Updated(@, cached.table), !.SOURCE = "cached",
                            !.INITIALIZED = TRUE]]
    ELSE FromBundled(bundled, st, Append(io, "load"))

FromFetch(fetched, bundled, io_ok, st, t) ==
    IF fetched.k = "table"
    THEN [ret |-> "fetched", io |-> <<"fetch", "save">>,
          st |-> [st EXCEPT !.PRICING = Updated(@, fetched.table), !.SOURCE = "fetched",
                            !.INITIALIZED = TRUE,
                            !.cache_file = save_to_cache(fetched.table, @, t, io_ok).file]]
    ELSE FromCache(load_from_cache(st.cache_file, t), bundled, st, <<"fetch">>)

(* initialize_pricing without the call of save_to_cache.                   *)
initialize_pricing_no_save(offline_mode, fetched, bundled, io_ok, st, t) ==
    IF st.INITIALIZED THEN [ret |-> st.SOURCE, io |-> <<>>, st |-> st]
    ELSE IF ~offline_mode /\ fetched.k = "table"
    THEN [ret |-> "fetched", io |-> <<"fetch">>,
          st |-> [st EXCEPT !.PRICING = Updated(@, fetched.table), !.SOURCE = "fetched",
                            !.INITIALIZED = TRUE]]
    ELSE IF ~offline_mode
    THEN FromCache(load_from_cache(st.cache_file, t), bundled, st, <<"fetch">>)
    ELSE FromCache(load_from_cache(st.cache_file, t), bundled, st, <<>>)

(* initialize_pricing without the test of _PRICING_INITIALIZED.            *)
initialize_pricing_every_time(offline_mode, fetched, bundled, io_ok, st, t) ==
    IF ~offline_mode THEN FromFetch(fetched, bundled, io_ok, st, t)
    ELSE FromCache(load_from_cache(st.cache_file, t), bundled, st, <<>>)

(* fetched is what fetch_litellm_pricing would return, bundled what        *)
(* _load_bundled_pricing would, io_ok whether the cache can be written.    *)
initialize_pricing(offline_mode, fetched, bundled, io_ok, st, t) ==
    IF st.INITIALIZED THEN [ret |-> st.SOURCE, io |-> <<>>, st |-> st]
    ELSE IF ~offline_mode THEN FromFetch(fetched, bundled, io_ok, st, t)
    ELSE FromCache(load_from_cache(st.cache_file, t), bundled, st, <<>>)

----------------------------------------------------------------------------
(* SpecPricing: initialize_pricing, save_to_cache and load_from_cache      *)
(* called in any order while the clock passes the cache's expiry and       *)
(* other processes replace or delete the cache file.                       *)

SonnetRates == [input |-> Dec(<<3>>, -6), output |-> Dec(<<1, 5>>, -6),
                cache_creation |-> Dec(<<3, 7, 5>>, -8), cache_read |-> Dec(<<3>>, -7)]

(* Rates as the fetcher makes them of floats: Decimal(str(1.5e-05)),       *)
(* Decimal(str(0.0)).                                                      *)
OpusRates == [input |-> Dec(<<1, 5>>, -5), output |-> Dec(<<7, 5>>, -5),
              cache_creation |-> Dec(<<0>>, -1), cache_read |-> Dec(<<1, 5>>, -6)]

PricingModels == {"claude-sonnet-4-5", "claude-opus-4"}

PricingTables == UNION {[S -> {SonnetRates, OpusRates}] : S \in SUBSET PricingModels}

TtlMs == CACHE_TTL_HOURS * 3600 * 1000

PricingTimes == {TtlMs - 1, TtlMs}

(* fetch_litellm_pricing returns a table that is not empty, or None.       *)
FetchOutcomes ==
    {NoneValue, TableValue([model \in {"claude-sonnet-4-5"} |-> SonnetRates]),
     TableValue([model \in PricingModels |-> OpusRates])}

(* bundled_pricing.json is not part of the sources: _load_bundled_pricing  *)
(* returns its table, or {} when the file cannot be loaded.                *)
BundledOutcomes == {NoTable, [model \in PricingModels |-> SonnetRates]}

(* What another process may leave at the cache path.                       *)
ForeignCacheFiles ==
    {NoCacheFile, [k |-> "garbage"],
     [k |-> "json", version |-> "1.0", fetched_at |-> StampOf(0), ttl_hours |-> CACHE_TTL_HOURS,
      pricing |-> [model \in {"claude-opus-4"} |->
                     [r \in RateTypes |-> IF r = "input" THEN <<"a", "b", "c">> ELSE <<"0">>]]],
     [k |-> "nonobject"],
     [k |-> "no_pricing", version |-> "1.0", fetched_at |-> StampOf(0),
      ttl_hours |-> CACHE_TTL_HOURS]}

InitPricing == InitApp(TRUE) /\ projects_exists = TRUE

(* output describes the last call; input the argument and the time of the  *)
(* save_to_cache that wrote the cache file as it now is.                   *)
LibraryStep(call, saved, st) ==
    /\ output' = call
    /\ input' = saved
    /\ PRICING' = st.PRICING
    /\ PRICING_INITIALIZED' = st.INITIALIZED
    /\ PRICING_SOURCE' = st.SOURCE
    /\ cache_file' = st.cache_file
    /\ UNCHANGED <<now, app_vars, side_vars>>

Saved(table, t) == [k |-> "saved", pricing_data |-> table, at |-> t]

InitializeReturns(offline_mode, fetched, io_ok, r) ==
    LibraryStep([op |-> "initialize_pricing", offline_mode |-> offline_mode,
                 fetched |-> IF offline_mode \/ PRICING_INITIALIZED THEN NoneValue ELSE fetched,
                 before |-> PricingState, at |-> now, ret |-> r.ret, io |-> r.io,
                 io_ok |-> io_ok /\ r.ret = "fetched" /\ r.io # <<>>],
                IF r.st.cache_file = cache_file THEN input
                ELSE Saved(fetched.table, now),
                r.st)

call_initialize_pricing ==
    \E offline_mode, io_ok \in BOOLEAN : \E fetched \in FetchOutcomes :
    \E bundled \in BundledOutcomes :
        InitializeReturns(offline_mode, fetched, io_ok,
            initialize_pricing(offline_mode, fetched, bundled, io_ok, PricingState, now))

SaveReturns(pricing_data, r) ==
    LibraryStep([op |-> "save_to_cache", pricing_data |-> pricing_data, at |-> now,
                 ret |-> r.ret],
                IF r.ret THEN Saved(pricing_data, now) ELSE input,
                [PricingState EXCEPT !.cache_file = r.file])

call_save_to_cache ==
    \E pricing_data \in PricingTables : \E io_ok \in BOOLEAN :
        SaveReturns(pricing_data, save_to_cache(pricing_data, cache_file, now, io_ok))

call_load_from_cache ==
    LibraryStep([op |-> "load_from_cache", at |-> now, ret |-> load_from_cache(cache_file, now)],
                input, PricingState)

call_is_cache_valid ==
    LibraryStep([op |-> "is_cache_valid", at |-> now, ret |-> is_cache_valid(cache_file, now)],
                input, PricingState)

foreign_write ==
    \E file \in ForeignCacheFiles :
        LibraryStep([op |-> "foreign_write"], NoInput, [PricingState EXCEPT !.cache_file = file])

NextPricing ==
    \/ call_initialize_pricing
    \/ call_save_to_cache
    \/ call_load_from_cache
    \/ call_is_cache_valid
    \/ foreign_write
    \/ Tick(PricingTimes)

SpecPricing == InitPricing /\ [][NextPricing]_vars

----------------------------------------------------------------------------
(* Properties of the pricing functions, checked under SpecPricing.         *)

FirstCall == output.op = "initialize_pricing" /\ ~output.before.INITIALIZED

FetchSucceeded == ~output.offline_mode /\ output.fetched.k = "table"

CacheLoaded == load_from_cache(output.before.cache_file, output.at).k = "table"

Attempted == IF output.offline_mode THEN <<>> ELSE <<"fetch">>

(* C18: the first call of initialize_pricing tries the fetch (unless       *)
(* offline), the cache and the bundled file in this order and stops at the *)
(* first that gives a table: "fetched", with the table saved to the cache, *)
(* when the fetch succeeds; "cached" when it does not or is not attempted  *)
(* and the cache loads; "bundled" otherwise.                               *)
C18_InitializeTiers ==
    FirstCall =>
        /\ FetchSucceeded =>
              /\ output.ret = "fetched"
              /\ output.io = <<"fetch", "save">>
              /\ PRICING = output.fetched.table
              /\ output.io_ok =>
                    cache_file = save_to_cache(output.fetched.table, output.before.cache_file,
                                               output.at, TRUE).file
        /\ (~FetchSucceeded /\ CacheLoaded) =>
              /\ output.ret = "cached"
              /\ output.io = Attempted \o <<"load">>
              /\ PRICING = load_from_cache(output.before.cache_file, output.at).table
              /\ cache_file = output.before.cache_file
        /\ (~FetchSucceeded /\ ~CacheLoaded) =>
              /\ output.ret = "bundled"
              /\ output.io = Attempted \o <<"load", "bundled">>
              /\ cache_file = output.before.cache_file
        /\ PRICING_SOURCE = output.ret

(* The fetch was attempted and failed, and the cache gave the table.       *)
C18_Witness ==
    /\ FirstCall
    /\ output.ret = "cached"
    /\ output.io = <<"fetch", "load">>
    /\ PRICING # NoTable

(* C19: once a call of initialize_pricing has completed, a later call      *)
(* returns the source the first one set, leaves the pricing table and the  *)
(* cache file as they are, and touches neither the network nor the cache.  *)
C19_InitializeOnce ==
    (output.op = "initialize_pricing" /\ output.before.INITIALIZED) =>
        /\ output.ret = output.before.SOURCE
        /\ output.io = <<>>
        /\ PRICING = output.before.PRICING
        /\ PRICING_SOURCE = output.before.SOURCE
        /\ cache_file = output.before.cache_file

(* A later call, online and with a cache that would load, after a first    *)
(* call that fell through to the bundled file.                             *)
C19_Witness ==
    /\ output.op = "initialize_pricing"
    /\ output.before.INITIALIZED
    /\ ~output.offline_mode
    /\ output.ret = "bundled"
    /\ load_from_cache(cache_file, now).k = "table"

RECURSIVE StripTrailingZeros(_)
StripTrailingZeros(d) ==
    IF d.digits = <<0>> THEN Dec(<<0>>, 0)
    ELSE IF d.digits[Len(d.digits)] = 0
    THEN StripTrailingZeros(Dec(SubSeq(d.digits, 1, Len(d.digits) - 1), d.exp + 1))
    ELSE d

(* Decimal's ==: equal as numbers.                                         *)
DecimalEq(a, b) == StripTrailingZeros(a) = StripTrailingZeros(b)

SameTable(a, b) ==
    /\ DOMAIN a = DOMAIN b
    /\ \A model \in DOMAIN a : \A r \in RateTypes : DecimalEq(a[model][r], b[model][r])

(* The last call was a load_from_cache of the file a save_to_cache wrote,  *)
(* before the file's expiry.                                               *)
LoadedAfterSave ==
    /\ output.op = "load_from_cache"
    /\ input.k = "saved"
    /\ output.at < input.at + TtlMs

(* C20 as stated: load_from_cache after save_to_cache returns a table with *)
(* exactly the saved model keys and rates equal to the saved ones.         *)
C20_RoundTripAnyTable ==
    LoadedAfterSave =>
        /\ output.ret.k = "table"
        /\ SameTable(output.ret.table, input.pricing_data)

(* C20, amended: load_from_cache after save_to_cache of a table that holds *)
(* at least one model returns a table with exactly the saved model keys    *)
(* and rates equal to the saved ones.                                      *)
C20_RoundTrip ==
    (LoadedAfterSave /\ input.pricing_data # NoTable) =>
        /\ output.ret.k = "table"
        /\ SameTable(output.ret.table, input.pricing_data)

(* A table saved at clock 0 and loaded just before its expiry, with a rate *)
(* that str writes in scientific notation.                                 *)
C20_Witness ==
    /\ LoadedAfterSave
    /\ input.at = 0
    /\ output.at = TtlMs - 1
    /\ "claude-sonnet-4-5" \in DOMAIN input.pricing_data
    /\ input.pricing_data["claude-sonnet-4-5"] = SonnetRates
    /\ cache_file.pricing["claude-sonnet-4-5"].cache_read = <<"3", "E", "-", "7">>
    /\ output.ret.k = "table"

(* The cache file is missing, not valid JSON, no object, lacks a required  *)
(* field, or has expired at t.                                             *)
Defective(file, t) ==
    \/ file.k # "json"
    \/ t >= file.fetched_at.val + file.ttl_hours * 3600 * 1000

(* C21: of a cache file that is missing, expired or defective,             *)
(* load_from_cache returns None and is_cache_valid returns False, and      *)
(* neither raises.  (The statement of the claim; the code violates it.)    *)
C21_DefectiveCacheRejected ==
    /\ (output.op = "load_from_cache" /\ Defective(cache_file, output.at))
          => output.ret = NoneValue
    /\ (output.op = "is_cache_valid" /\ Defective(cache_file, output.at))
          => (~output.ret.raised /\ ~output.ret.val)

----------------------------------------------------------------------------
(* SpecCacheWriters: save_to_cache step by step, run by two processes      *)
(* (two instances of the program started together) next to a reader.  An   *)
(* open file is known by where its inode now is: at the temp path, at the  *)
(* cache path, or nowhere ("orphan") once another file was moved over it.  *)

(* A file that was created or truncated and does not hold a whole document. *)
PartialFile == [k |-> "partial"]

WriterTables ==
    {[model \in {"claude-sonnet-4-5"} |-> SonnetRates], [model \in PricingModels |-> OpusRates]}

(* pricing_json and cache_data are built: fetched_at is the clock now.     *)
save_begin(s) ==
    /\ savers[s].pc \in {"idle", "done"}
    /\ \E pricing_data \in WriterTables :
          savers' = [savers EXCEPT ![s] = [pc |-> "built", data |-> pricing_data, at |-> now,
                                           handle |-> "none", ret |-> "none"]]
    /\ UNCHANGED <<now, app_vars, input, output, PRICING, PRICING_INITIALIZED, PRICING_SOURCE,
                   cache_file, temp_file, tail_file, tailer>>

(* open(temp_path, "w") creates the file or truncates the one that is      *)
(* there, the same for every process: get_cache_path has one temp name.    *)
save_open_temp(s) ==
    /\ savers[s].pc = "built"
    /\ temp_file' = PartialFile
    /\ savers' = [savers EXCEPT ![s].pc = "opened", ![s].handle = "temp"]
    /\ UNCHANGED <<now, app_vars, input, output, PRICING, PRICING_INITIALIZED, PRICING_SOURCE,
                   cache_file, tail_file, tailer>>

(* What the open file holds after the process wrote its document from the  *)
(* file's start: over a longer document, the other's rest stays behind.    *)
Overwritten(old, doc) ==
    IF old.k = "json" /\ Cardinality(DOMAIN old.pricing) > Cardinality(DOMAIN doc.pricing)
    THEN PartialFile
    ELSE doc

(* json.dump and the end of the with block: the document reaches the file  *)
(* the process has open, wherever that file is by now.                     *)
save_write(s) ==
    /\ savers[s].pc = "opened"
    /\ \E doc \in {save_to_cache(savers[s].data, NoCacheFile, savers[s].at, TRUE).file} :
          /\ temp_file' = IF savers[s].handle = "temp" THEN Overwritten(temp_file, doc)
                          ELSE temp_file
          /\ cache_file' = IF savers[s].handle = "cache" THEN Overwritten(cache_file, doc)
                           ELSE cache_file
    /\ savers' = [savers EXCEPT ![s].pc = "written", ![s].handle = "none"]
    /\ UNCHANGED <<now, app_vars, input, output, PRICING, PRICING_INITIALIZED, PRICING_SOURCE,
                   tail_file, tailer>>

(* temp_path.replace(cache_path): FileNotFoundError (an OSError, so the    *)
(* function returns False) when another process has moved the file away.   *)
save_rename(s) ==
    /\ savers[s].pc = "written"
    /\ IF temp_file.k = "missing"
       THEN /\ savers' = [savers EXCEPT ![s].pc = "done", ![s].ret = "False"]
            /\ UNCHANGED <<cache_file, temp_file>>
       ELSE /\ cache_file' = temp_file
            /\ temp_file' = NoCacheFile
            /\ savers' = [p \in Savers |->
                            IF p = s THEN [savers[p] EXCEPT !.pc = "done", !.ret = "True"]
                            ELSE [savers[p] EXCEPT !.handle =
                                     CASE @ = "temp" -> "cache"
                                       [] @ = "cache" -> "orphan"
                                       [] OTHER -> @]]
    /\ UNCHANGED <<now, app_vars, input, output, PRICING, PRICING_INITIALIZED, PRICING_SOURCE,
                   tail_file, tailer>>

NextCacheWriters ==
    \/ \E s \in Savers : save_begin(s)
    \/ \E s \in Savers : save_open_temp(s)
    \/ \E s \in Savers : save_write(s)
    \/ \E s \in Savers : save_rename(s)
    \/ call_load_from_cache

SpecCacheWriters == InitPricing /\ [][NextCacheWriters]_vars

(* C22: the file at the cache path is at every moment absent or a whole    *)
(* document, however the steps of two save_to_cache calls and of a reader  *)
(* interleave, and when no save is under way no temp file is left.  (The   *)
(* statement of the claim; the code violates it.)                          *)
C22_NoPartialDocument ==
    /\ cache_file.k \in {"missing", "json"}
    /\ (\A s \in Savers : savers[s].pc \in {"idle", "done"}) => temp_file = NoCacheFile

----------------------------------------------------------------------------
(* The todo side channel of the waiting check, checked under SpecLibrary.  *)

(* A todo file with an empty JSON array is there under one of the names.   *)
EmptyTodoList(arg) ==
    \E n \in {<<arg.session_id, "">>, <<arg.session_id, arg.agent_id>>} :
        n \in DOMAIN arg.todos /\ arg.todos[n] = "empty_list"

(* The last record carries a timestamp less than TodoWindow before t.      *)
RecentLastRecord(arg) ==
    LET ts == arg.entries[Len(arg.entries)].timestamp
    IN ts.k \in {"aware", "naive"} /\ arg.t - InstantOf(ts) < TodoWindow

(* C23: when the last record is no assistant end_turn message, the waiting *)
(* check succeeds exactly when the session id is not empty, one of the two *)
(* todo files holds an empty JSON array and the last record's timestamp is *)
(* less than five minutes old; whatever else the todo files are, the check *)
(* fails and raises nothing.  (The statement of the claim; the code        *)
(* violates it.)                                                           *)
C23_TodoSideChannel ==
    (output.op = "_check_waiting_for_user"
        /\ ~EndsTurn(output.arg.entries[Len(output.arg.entries)])) =>
        /\ ~output.ret.raised
        /\ output.ret.val = (/\ output.arg.session_id # ""
                             /\ EmptyTodoList(output.arg)
                             /\ RecentLastRecord(output.arg))

----------------------------------------------------------------------------
(* SpecUsageFrame: the application run with --no-watch while               *)
(* calculate_usage_metrics is also called on its own, before the first     *)
(* scan and between refresh cycles, over log files of which one starts     *)
(* with a usage-bearing record that has no agentId.                        *)
UsageFrameLines(p) ==
    IF p = P1
    THEN {Obj("assistant", TsAware(TzOffset), "", "s1", Msg("tool_use", Sonnet, Usage(7, 3, 0, 0))),
          EndTurnLine(TsAware(TzOffset), "a1", "s1")}
    ELSE {ToolUseLine(TsAware(TzOffset), "a2", "s2")}

call_calculate_usage_metrics ==
    /\ BetweenCycles
    /\ \E order \in ScanOrders :
          output' = [op |-> "calculate_usage_metrics", files |-> files,
                     ret |-> calculate_usage_metrics(start_time, order, projects_exists,
                                                     files, creds, now)]
    /\ UNCHANGED <<now, app_vars, input, PRICING, PRICING_INITIALIZED, PRICING_SOURCE,
                   cache_file, side_vars>>

NextUsageFrame ==
    \/ on_mount
    \/ timer_fires
    \/ periodic_refresh
    \/ RefreshFinish
    \/ call_calculate_usage_metrics
    \/ BetweenCycles /\ \E p \in LogPaths : \E line \in UsageFrameLines(p) : write_log(p, line)
    \/ BetweenCycles /\ \E p \in LogPaths : remove_log(p)

SpecUsageFrame == InitNoAgentId /\ [][NextUsageFrame]_vars

(* The result counts the usage records of every log file it was called on. *)
CountsEveryFile ==
    output.op = "calculate_usage_metrics" =>
        /\ ~output.ret.raised
        /\ output.ret.m.session_total_tokens
              = TokensSince(output.files[P1].lines, SessionStartUtc)
                + TokensSince(output.files[P2].lines, SessionStartUtc)
        /\ output.ret.m.session_request_count
              = RequestsSince(output.files[P1].lines, SessionStartUtc)
                + RequestsSince(output.files[P2].lines, SessionStartUtc)
        /\ output.ret.m.weekly_total_tokens
              = TokensSince(output.files[P1].lines, WeekStartUtc)
                + TokensSince(output.files[P2].lines, WeekStartUtc)
        /\ output.ret.m.weekly_request_count
              = RequestsSince(output.files[P1].lines, WeekStartUtc)
                + RequestsSince(output.files[P2].lines, WeekStartUtc)

(* A call leaves the agent set, the session set and the metrics alone.     *)
UsageCallStep == output' # output => (agents' = agents /\ sessions' = sessions /\ metrics' = metrics)

(* C24: calculate_usage_metrics leaves the agent set and the session set   *)
(* unchanged, and its result is determined by the log files alone,         *)
(* whatever the agent set holds when it is called: the usage records of    *)
(* every log file count, those of files no Agent is built from included.   *)
C24_UsageIndependentOfAgents == []CountsEveryFile /\ [][UsageCallStep]_vars

(* Called on a stale agent set: the scanned file of agent a2 is gone, the  *)
(* remaining file gives no Agent, and its usage record is counted.         *)
C24_Witness ==
    /\ output.op = "calculate_usage_metrics"
    /\ hist.scanned
    /\ \E i \in DOMAIN agents : agents[i].agent_id = "a2"
    /\ ~files[P2].exists
    /\ FirstRecordHasNoId(files[P1])
    /\ output.files = files
    /\ output.ret.m.session_total_tokens = 10

----------------------------------------------------------------------------
(* System Metrics against the agent set, checked under SpecStatus.         *)

RECURSIVE SumOverAgents(_, _)
SumOverAgents(ags, field) ==
    IF ags = <<>> THEN 0 ELSE Head(ags)[field] + SumOverAgents(Tail(ags), field)

WithStatus(status) == Cardinality({i \in DOMAIN agents : agents[i].status = status})

(* C25: after every scan the metrics are sums over the agent set the scan  *)
(* left: total_agents is its size, the four status counts are the numbers  *)
(* of agents with that status and add up to total_agents, and each token   *)
(* total is the sum of the agents' field.                                  *)
C25_MetricsSumOverAgents ==
    ScanIsCurrent =>
        /\ metrics.total_agents = Len(agents)
        /\ metrics.active_agents = WithStatus("active")
        /\ metrics.idle_agents = WithStatus("idle")
        /\ metrics.waiting_for_user = WithStatus("waiting_for_user")
        /\ metrics.stopped_agents = WithStatus("stopped")
        /\ metrics.active_agents + metrics.idle_agents + metrics.waiting_for_user
              + metrics.stopped_agents = metrics.total_agents
        /\ metrics.total_input_tokens = SumOverAgents(agents, "total_input_tokens")
        /\ metrics.total_output_tokens = SumOverAgents(agents, "total_output_tokens")
        /\ metrics.total_cache_creation_tokens
              = SumOverAgents(agents, "total_cache_creation_tokens")
        /\ metrics.total_cache_read_tokens = SumOverAgents(agents, "total_cache_read_tokens")

(* Two agents under different statuses, one of them stopped, and their    *)
(* tokens.                                                                 *)
C25_Witness ==
    /\ ScanIsCurrent
    /\ Len(agents) = 2
    /\ agents[1].status # agents[2].status
    /\ metrics.stopped_agents = 1
    /\ metrics.total_input_tokens = 150
    /\ metrics.total_cache_read_tokens = 20

----------------------------------------------------------------------------
(* SpecTimer: the application started with or without --no-watch, the      *)
(* timer ticking, the refresh and sort keys pressed, records written to    *)
(* one log file and the clock crossing the debounce window.                *)
TimerKeys == {"key_r", "key_s"}

InitTimer ==
    /\ InitApp(TRUE) \/ InitApp(FALSE)
    /\ projects_exists = TRUE

NextTimer ==
    \/ on_mount
    \/ timer_fires
    \/ periodic_refresh
    \/ \E k \in TimerKeys : key_press(k)
    \/ action_refresh
    \/ action_toggle_sort
    \/ run_thread_callback
    \/ RefreshFinish
    \/ on_modified_directory
    \/ on_log_file_changed
    \/ \E line \in WatchLines(P1) : write_log(P1, line)
    \/ Tick({DebounceWindow})

SpecTimer == InitTimer /\ [][NextTimer]_vars

WaitingIn(q, cb) == Cardinality({i \in DOMAIN q : q[i].cb = cb})

Waiting(cb) == WaitingIn(app_queue, cb)

ScanStarts == app_pc # "scanned" /\ app_pc' = "scanned"

TimerRescanStep ==
    /\ WaitingIn(app_queue', "timer") < Waiting("timer")
           => IF disable_watcher THEN ScanStarts /\ cur' = "timer" ELSE ~ScanStarts
    /\ (ScanStarts /\ ~disable_watcher)
           => \/ cur' = "mount" /\ app_pc = "unmounted"
              \/ cur' = "watch" /\ hist.owed > 0 /\ hist'.owed = hist.owed - 1
              \/ cur' \in TimerKeys /\ WaitingIn(app_queue', cur') < WaitingIn(app_queue, cur')

----------------------------------------------------------------------------
(* The session count against the agent set, checked under Spec.            *)

SessionsOfAgents == {agents[i].session_id : i \in DOMAIN agents}

(* C27: after every scan total_sessions is the number of distinct session  *)
(* ids among the agents of the final agent set, two log files that carry   *)
(* the same agent id under different session ids included.  (The           *)
(* statement of the claim; the code violates it.)                          *)
C27_SessionsOfFinalAgents ==
    ScanIsCurrent => metrics.total_sessions = Cardinality(SessionsOfAgents)

----------------------------------------------------------------------------
(* watchers/log_tailer.py: LogTailer over one file.  The file's content is *)
(* a sequence of bytes, each a character of TailBytes.                     *)

MaxBytes == 3

TailBytes == {"a", "\n"}

Inodes == {1, 2, 3}

TailChunks == SeqsUpTo(TailBytes, 2) \ {<<>>}

TailContents == SeqsUpTo(TailBytes, MaxBytes) \ {<<>>}

(* f.readlines(): the rest of the file cut after every newline; the last   *)
(* element is what follows the last newline, when something does.          *)
RECURSIVE readlines(_)
readlines(bytes) ==
    IF bytes = <<>> THEN <<>>
    ELSE LET ends == {i \in DOMAIN bytes : bytes[i] = "\n"}
             k == IF ends = {} THEN Len(bytes)
                  ELSE CHOOSE i \in ends : \A j \in ends : i <= j
         IN <<SubSeq(bytes, 1, k)>> \o readlines(SubSeq(bytes, k + 1, Len(bytes)))

(* LogTailer.get_new_lines for the file and the file_positions entry.      *)
get_new_lines(file, entry) ==
    IF ~file.exists THEN [ret |-> <<>>, entry |-> entry]
    ELSE LET current_size == Len(file.content)
             current_inode == file.ino
             stored_position == IF entry.known THEN entry.position ELSE 0
             after_inode == IF entry.known /\ entry.inode # current_inode
                            THEN 0 ELSE stored_position
             last_position == IF current_size < after_inode THEN 0 ELSE after_inode
             new_lines == readlines(SubSeq(file.content, last_position + 1, current_size))
             new_position == current_size
         IN [ret |-> new_lines,
             entry |-> [entry EXCEPT !.known = TRUE, !.position = new_position,
                                     !.inode = current_inode]]

TailStep(call, file, entry) ==
    /\ output' = call
    /\ tail_file' = file
    /\ tailer' = entry
    /\ UNCHANGED <<now, app_vars, input, PRICING, PRICING_INITIALIZED, PRICING_SOURCE,
                   cache_file, temp_file, savers>>

Disturbed(entry, how) ==
    [entry EXCEPT !.returned = <<>>, !.appended_only = FALSE, !.fresh = how]

call_get_new_lines ==
    \E r \in {get_new_lines(tail_file, tailer)} :
        TailStep([op |-> "get_new_lines", exists |-> tail_file.exists,
                  position |-> IF tailer.known THEN tailer.position ELSE 0,
                  content |-> tail_file.content, fresh |-> tailer.fresh, ret |-> r.ret],
                 tail_file,
                 [r.entry EXCEPT !.returned = IF tailer.appended_only THEN @ \o r.ret
                                              ELSE <<>>,
                                 !.fresh = IF tail_file.exists THEN "none" ELSE @])

(* reset(file_path): the entry is deleted.                                 *)
call_reset ==
    TailStep([op |-> "reset"], tail_file,
             Disturbed([tailer EXCEPT !.known = FALSE, !.position = 0, !.inode = 0],
                       "reset"))

(* The file's writer creates it, appends to it (a write may end inside a   *)
(* line), replaces it by a new file, or truncates and rewrites it.         *)
tail_create ==
    /\ ~tail_file.exists
    /\ TailStep([op |-> "create"], [exists |-> TRUE, ino |-> 1, content |-> <<>>], tailer)

tail_append(chunk) ==
    /\ tail_file.exists
    /\ Len(tail_file.content) + Len(chunk) <= MaxBytes
    /\ TailStep([op |-> "append"], [tail_file EXCEPT !.content = @ \o chunk], tailer)

(* The new file's inode is neither the replaced file's nor the recorded    *)
(* one.                                                                    *)
tail_rotate(content) ==
    /\ tail_file.exists
    /\ \E ino \in Inodes \ {tail_file.ino, tailer.inode} :
          TailStep([op |-> "rotate"], [exists |-> TRUE, ino |-> ino, content |-> content],
                   Disturbed(tailer, "rotated"))

tail_rewrite(content) ==
    /\ tail_file.exists
    /\ TailStep([op |-> "rewrite"], [tail_file EXCEPT !.content = content],
                Disturbed(tailer, "rewritten"))

NextTailer ==
    \/ call_get_new_lines
    \/ call_reset
    \/ tail_create
    \/ \E chunk \in TailChunks : tail_append(chunk)
    \/ \E content \in TailContents : tail_rotate(content)
    \/ \E content \in TailContents : tail_rewrite(content)

SpecTailer == InitPricing /\ [][NextTailer]_vars

RECURSIVE Flatten(_)
Flatten(lines) == IF lines = <<>> THEN <<>> ELSE Head(lines) \o Flatten(Tail(lines))

(* The number of bytes in the first k returned elements.                   *)
ReturnedUpTo(k) == Len(Flatten(SubSeq(tailer.returned, 1, k)))

ExactlyOnceInOrder ==
    Flatten(tailer.returned)
        = SubSeq(tail_file.content, 1, IF tailer.known THEN tailer.position ELSE 0)

WholeLines ==
    \A k \in DOMAIN tailer.returned :
        \/ tailer.returned[k][Len(tailer.returned[k])] = "\n"
        \/ ReturnedUpTo(k) = Len(tail_file.content)

NothingNewNothingReturned ==
    (output.op = "get_new_lines" /\ output.position = Len(output.content))
        => output.ret = <<>>

(* C28: while the file is only appended to, what the calls have returned   *)
(* is the file's content up to the recorded position, byte for byte and in *)
(* order; every returned element is a whole line of the file (it ends with *)
(* the newline, or nothing was written after it); a call that finds no new *)
(* data returns the empty list.  (The statement of the claim; the code     *)
(* violates it.)                                                           *)
C28_AppendedContentExactlyOnce ==
    tailer.appended_only
        => ExactlyOnceInOrder /\ WholeLines /\ NothingNewNothingReturned

(* C29: the call that follows a rotation, a truncate-and-rewrite or a      *)
(* reset returns the whole content of the file as it then is.  (The        *)
(* statement of the claim; the code violates it.)                          *)
C29_StartsOverAfterReplacement ==
    (output.op = "get_new_lines" /\ output.fresh # "none")
        => Flatten(output.ret) = output.content

----------------------------------------------------------------------------
(* The pricing table at the time of a scan, checked under Spec.            *)

(* The scan has summed the cost of an agent that used tokens.              *)
CostComputed ==
    /\ ScanIsCurrent
    /\ \E i \in DOMAIN agents : agents[i].total_input_tokens > 0
    /\ metrics.total_cost > 0

(* C30: whenever a scan has computed an agent's cost, the pricing table    *)
(* had been initialized by initialize_pricing.  (The statement of the      *)
(* claim; the code violates it.)                                           *)
C30_CostsAfterInitialization == CostComputed => PRICING_INITIALIZED

====
